---- MODULE Spec2Model ----
(***************************************************************************)
(* Post-op fusion subsystem of oneDNN (x64):                               *)
(*   - injector::post_ops_ok, the validity checker of a post-op chain      *)
(*   - jit_uni_postops_injector_t, the orchestrating injector              *)
(*     (construction, compute_vector_range)                                *)
(*   - gemm_convolution_utils::jit_pp_kernel_t, the fused epilogue kernel  *)
(* Sources: src/cpu/x64/injectors/jit_uni_postops_injector.cpp,            *)
(*          src/cpu/x64/jit_gemm_convolution_utils.cpp                     *)
(***************************************************************************)
EXTENDS Integers, Sequences, FiniteSets, TLC

(***************************************************************************)
(* Bounds of the model.                                                    *)
(***************************************************************************)
\* longest post-op chain handed to post_ops_ok
MaxLen == 2

(***************************************************************************)
(* Program constants.                                                      *)
(***************************************************************************)
\* sizeof(float *) on x64
PtrSize == 8

(***************************************************************************)
(* Small helpers.                                                          *)
(***************************************************************************)
SeqsUpTo(S, n) == UNION {[1..k -> S] : k \in 0..n}

Range(s) == {s[k] : k \in DOMAIN s}

(***************************************************************************)
(* ISA tiers (cpu_isa_t) and is_superset.                                  *)
(***************************************************************************)
Isas == {"sse41", "avx512_core"}

\* every tier the dispatcher can be asked for or can pick, and one it has no
\* instance for
AllIsas ==
    {"sse41", "avx", "avx2", "avx2_vnni_2", "avx512_core", "avx512_core_bf16",
     "avx512_core_fp16", "avx512_core_amx"}

\* the feature bits of a tier
IsaBits(isa) ==
    CASE isa = "sse41" -> {"sse41"}
      [] isa = "avx" -> {"sse41", "avx"}
      [] isa = "avx2" -> {"sse41", "avx", "avx2"}
      [] isa = "avx2_vnni_2" -> {"sse41", "avx", "avx2", "avx2_vnni", "avx2_vnni_2"}
      [] isa = "avx512_core" -> {"sse41", "avx", "avx2", "avx512_core"}
      [] isa = "avx512_core_bf16" ->
             {"sse41", "avx", "avx2", "avx512_core", "avx512_core_vnni", "avx512_core_bf16"}
      [] isa = "avx512_core_fp16" ->
             {"sse41", "avx", "avx2", "avx512_core", "avx512_core_vnni", "avx512_core_bf16",
              "avx2_vnni", "avx512_core_fp16"}
      [] isa = "avx512_core_amx" ->
             {"sse41", "avx", "avx2", "avx512_core", "avx512_core_vnni", "avx512_core_bf16",
              "amx"}

is_superset(a, b) == IsaBits(b) \subseteq IsaBits(a)

(***************************************************************************)
(* Post-op entries (dnnl_post_ops::entry_t).  One record shape for every   *)
(* kind; a field that a kind does not have holds a neutral value.          *)
(***************************************************************************)
Entry(kind, alg, scale, zp, alpha, src1) ==
    [kind |-> kind, alg |-> alg, scale |-> scale, zero_point |-> zp,
     alpha |-> alpha, src1 |-> src1]

SumEntry(scale, zp) == Entry("sum", "undef", scale, zp, 0, "none")
EltwiseEntry(alg, alpha) == Entry("eltwise", alg, 0, 0, alpha, "none")
BinaryEntry(src1) == Entry("binary", "binary_add", 0, 0, 0, src1)
PreluEntry == Entry("prelu", "undef", 0, 0, 0, "none")
DepthwiseEntry(alg) == Entry("depthwise", alg, 0, 0, 0, "none")
QuantizationEntry(alg) == Entry("quantization", alg, 0, 0, 0, "none")
ConvolutionEntry == Entry("convolution", "undef", 0, 0, 0, "none")

\* entry_t predicates
is_sum(e) == e.kind = "sum"
is_eltwise(e) == e.kind = "eltwise"
is_binary(e) == e.kind = "binary"
is_prelu(e) == e.kind = "prelu"
is_like_binary(e) == is_binary(e) \/ is_prelu(e)
is_depthwise(e) == e.kind = "depthwise"
is_quantization(e) == e.kind = "quantization"

\* post_ops_t::find(kind): index of the first entry of that kind; chains are
\* 1-based here, so 0 stands for the code's -1 (none)
find(post_ops, kind) ==
    IF \E k \in DOMAIN post_ops : post_ops[k].kind = kind
    THEN CHOOSE k \in DOMAIN post_ops :
            /\ post_ops[k].kind = kind
            /\ \A j \in DOMAIN post_ops : post_ops[j].kind = kind => k <= j
    ELSE 0

(***************************************************************************)
(* Collaborators of the validity checker that live outside the source      *)
(* files at hand: the per-kind support predicates.                         *)
(***************************************************************************)
EltwiseAlgs == {"eltwise_relu", "eltwise_round"}

\* eltwise_injector::is_supported(isa, alg, data_type::f32)
eltwise_is_supported(isa, alg) ==
    \/ alg = "eltwise_relu"
    \/ alg = "eltwise_round" /\ is_superset(isa, "avx512_core")

\* destination descriptors: a null pointer, format_kind any, two concrete layouts
DstDescs == {"null", "any", "nchw", "nChw16c"}

\* binary_injector::get_src1_desc(entry, dst_d)
get_src1_desc(e, dst) == IF is_binary(e) THEN e.src1 ELSE "per_oc_f32"

\* the broadcasting strategy an operand-1 descriptor needs on a layout
BcastOf(src1, dst) == IF dst = "nchw" THEN "per_oc_spatial" ELSE "per_oc"

\* bcast_set_t values a caller enables
BcastSets == {{"scalar", "per_oc", "per_oc_spatial"}, {"scalar", "per_oc"}}

\* binary_injector::is_supported(isa, src1_desc, dst_d, supported_strategy_set)
binary_is_supported(isa, src1, dst, strategies) ==
    /\ (src1 = "per_oc_bf16" => is_superset(isa, "avx512_core"))
    /\ BcastOf(src1, dst) \in strategies

(***************************************************************************)
(* post_ops_ok                                                             *)
(***************************************************************************)
\* enum post_op_type
PostOpTypes == <<"sum", "eltwise", "binary", "prelu", "depthwise", "quantization">>

Reverse(s) == [k \in DOMAIN s |-> s[Len(s) + 1 - k]]

\* accepted_post_op_types vectors: nothing, one type, all types but one, all
\* types, and all types in the opposite order
AcceptedLists ==
    {<<>>, PostOpTypes, Reverse(PostOpTypes)}
    \cup {<<t>> : t \in Range(PostOpTypes)}
    \cup {SelectSeq(PostOpTypes, LAMBDA u : u # t) : t \in Range(PostOpTypes)}

OkEntries ==
    {SumEntry(1, 0), SumEntry(2, 0), SumEntry(1, 1)}
    \cup {EltwiseEntry(a, 0) : a \in EltwiseAlgs}
    \cup {BinaryEntry("per_oc_bf16"), PreluEntry,
          DepthwiseEntry("depthwise_scale_shift"),
          QuantizationEntry("quantization_quantize")}

\* post_ops_ok_args_t
OkArgs ==
    [isa : Isas,
     accepted_post_op_types : AcceptedLists,
     post_ops : SeqsUpTo(OkEntries, MaxLen),
     dst_d : DstDescs,
     sum_at_pos_0_only : BOOLEAN,
     sum_requires_scale_one : BOOLEAN,
     sum_requires_zp_zero : BOOLEAN,
     sum_requires_same_params : BOOLEAN,
     enabled_bcast_strategy : BcastSets]

\* scale and zero point of the first sum post-op (0 when the chain has none)
sum_scale(a) ==
    IF find(a.post_ops, "sum") # 0 THEN a.post_ops[find(a.post_ops, "sum")].scale ELSE 0

sum_zero_point(a) ==
    IF find(a.post_ops, "sum") # 0
    THEN a.post_ops[find(a.post_ops, "sum")].zero_point ELSE 0

SumCase_NoSameParams(a, idx) ==
    LET entry == a.post_ops[idx] IN
    IF a.sum_requires_scale_one /\ entry.scale # 1 THEN FALSE
    ELSE IF a.sum_requires_zp_zero /\ entry.zero_point # 0 THEN FALSE
    ELSE (a.sum_at_pos_0_only => idx = 1)

SumCase_NoPosition(a, idx) ==
    LET entry == a.post_ops[idx] IN
    IF a.sum_requires_same_params /\ entry.scale # sum_scale(a) THEN FALSE
    ELSE IF a.sum_requires_same_params /\ entry.zero_point # sum_zero_point(a) THEN FALSE
    ELSE IF a.sum_requires_scale_one /\ entry.scale # 1 THEN FALSE
    ELSE IF a.sum_requires_zp_zero /\ entry.zero_point # 0 THEN FALSE
    ELSE TRUE

SumCase_ZpForScale(a, idx) ==
    LET entry == a.post_ops[idx] IN
    IF a.sum_requires_same_params /\ entry.scale # sum_scale(a) THEN FALSE
    ELSE IF a.sum_requires_same_params /\ entry.zero_point # sum_zero_point(a) THEN FALSE
    ELSE IF a.sum_requires_zp_zero /\ entry.scale # 1 THEN FALSE
    ELSE IF a.sum_requires_zp_zero /\ entry.zero_point # 0 THEN FALSE
    ELSE (a.sum_at_pos_0_only => idx = 1)

\* case sum, once entry.is_sum(false, false) holds
SumCase(a, idx) ==
    LET entry == a.post_ops[idx] IN
    IF a.sum_requires_same_params /\ entry.scale # sum_scale(a) THEN FALSE
    ELSE IF a.sum_requires_same_params /\ entry.zero_point # sum_zero_point(a) THEN FALSE
    ELSE IF a.sum_requires_scale_one /\ entry.scale # 1 THEN FALSE
    ELSE IF a.sum_requires_zp_zero /\ entry.zero_point # 0 THEN FALSE
    ELSE (a.sum_at_pos_0_only => idx = 1)

EltwiseCase_WidestIsa(a, idx) == eltwise_is_supported("avx512_core", a.post_ops[idx].alg)

\* case eltwise, once entry.is_eltwise() holds
EltwiseCase(a, idx) == eltwise_is_supported(a.isa, a.post_ops[idx].alg)

\* case binary / case prelu, once entry.is_like_binary() holds
BinaryCase(a, idx) ==
    binary_is_supported(a.isa, get_src1_desc(a.post_ops[idx], a.dst_d), a.dst_d,
                        a.enabled_bcast_strategy)

DepthwiseCase_NeedsAvx512(a, idx) == is_superset(a.isa, "avx512_core")

\* case depthwise and case quantization, once the entry is of that kind
DepthwiseCase(a, idx) == TRUE

QuantizationCase(a, idx) == TRUE

\* one case of the switch of is_accepted_postop: ret tells whether the case
\* returns (val is what it returns) or breaks out to the next accepted type
CaseOf(a, idx, post_op) ==
    LET entry == a.post_ops[idx]
        Break == [ret |-> FALSE, val |-> FALSE]
    IN
    CASE post_op = "sum" ->
           IF is_sum(entry) THEN [ret |-> TRUE, val |-> SumCase(a, idx)] ELSE Break
      [] post_op = "eltwise" ->
           IF is_eltwise(entry) THEN [ret |-> TRUE, val |-> EltwiseCase(a, idx)] ELSE Break
      [] post_op \in {"binary", "prelu"} ->
           IF is_like_binary(entry) THEN [ret |-> TRUE, val |-> BinaryCase(a, idx)]
           ELSE Break
      [] post_op = "depthwise" ->
           IF is_depthwise(entry) THEN [ret |-> TRUE, val |-> DepthwiseCase(a, idx)]
           ELSE Break
      [] post_op = "quantization" ->
           IF is_quantization(entry) THEN [ret |-> TRUE, val |-> QuantizationCase(a, idx)]
           ELSE Break

\* the for loop of is_accepted_postop over accepted_post_op_types, from the
\* k-th type on; fallback is what the lambda returns when no case returned
RECURSIVE AcceptedFrom(_, _, _, _)
AcceptedFrom(a, idx, k, fallback) ==
    IF k > Len(a.accepted_post_op_types) THEN fallback
    ELSE LET c == CaseOf(a, idx, a.accepted_post_op_types[k]) IN
         IF c.ret THEN c.val ELSE AcceptedFrom(a, idx, k + 1, fallback)

is_accepted_postop_ReturnsTrue(a, idx) == AcceptedFrom(a, idx, 1, TRUE)

is_accepted_postop(a, idx) == AcceptedFrom(a, idx, 1, FALSE)

DstOk_NoNullCheck(a) == a.dst_d # "any"

\* the condition of the VCONDCHECK on the destination descriptor
DstOk(a) == a.dst_d # "null" /\ a.dst_d # "any"

\* the final loop over the chain: ret is the result, evaluated counts the
\* entries handed to is_accepted_postop
RECURSIVE OkLoop(_, _)
OkLoop(a, i) ==
    IF i > Len(a.post_ops) THEN [ret |-> TRUE, evaluated |-> i - 1]
    ELSE IF ~is_accepted_postop(a, i) THEN [ret |-> FALSE, evaluated |-> i]
    ELSE OkLoop(a, i + 1)

post_ops_ok(a) ==
    IF ~DstOk(a) THEN [ret |-> FALSE, evaluated |-> 0] ELSE OkLoop(a, 1)

(***************************************************************************)
(* jit_uni_postops_injector_t: construction.                               *)
(***************************************************************************)
\* opmask registers k1, k2 by index
Opmasks == {1, 2}

\* binary_injector::static_params_t: what the constructor reads of it
BinaryStaticParams == [tail_opmask : Opmasks, tail_size : {0, 1}]

\* eltwise_injector::static_params_t: what the constructor reads of it
EltwiseStaticParams == [k_mask_ : {1}]

\* std::map::emplace: an existing key keeps its value
Emplace(map, key, val) == IF key \in DOMAIN map THEN map ELSE map @@ (key :> val)

\* the sub-generators built for one entry
EltwiseInjector(isa, e, esp) == [isa |-> isa, alg |-> e.alg, alpha |-> e.alpha,
                                 k_mask |-> esp.k_mask_]
DepthwiseInjector(isa, e) == [isa |-> isa, alg |-> e.alg]
QuantizationInjector(isa, e) == [isa |-> isa, alg |-> e.alg]
BinaryInjector(isa, bsp) == [isa |-> isa, tail_opmask |-> bsp.tail_opmask,
                             tail_size |-> bsp.tail_size]

\* the null pointer a unique_ptr holds before it is set
Null == [isa |-> "nullptr"]

\* what the member initialisers leave before the constructor body runs
CtorStart ==
    [alg_to_eltwise_injector_ |-> <<>>, depthwise_injectors |-> <<>>,
     quantization_injectors |-> <<>>, is_like_binary |-> FALSE, is_eltwise |-> FALSE]

\* one iteration of the constructor's loop over the chain; eltwise
\* sub-generators are keyed by the entry's position (1-based here)
CtorStep(isa, post_ops, esp, i, acc) ==
    LET post_op == post_ops[i] IN
    IF is_eltwise(post_op)
    THEN [acc EXCEPT !.is_eltwise = TRUE,
                     !.alg_to_eltwise_injector_ =
                         Emplace(@, i, EltwiseInjector(isa, post_op, esp))]
    ELSE IF is_like_binary(post_op)
    THEN [acc EXCEPT !.is_like_binary = TRUE]
    ELSE IF is_depthwise(post_op)
    THEN [acc EXCEPT !.depthwise_injectors = Append(@, DepthwiseInjector(isa, post_op))]
    ELSE IF is_quantization(post_op)
    THEN [acc EXCEPT !.quantization_injectors =
                         Append(@, QuantizationInjector(isa, post_op))]
    ELSE acc

RECURSIVE CtorLoop(_, _, _, _, _)
CtorLoop(isa, post_ops, esp, i, acc) ==
    IF i > Len(post_ops) THEN acc
    ELSE CtorLoop(isa, post_ops, esp, i + 1, CtorStep(isa, post_ops, esp, i, acc))

MaskAssertFires_AnyIsa(isa, acc, bsp, esp) ==
    /\ acc.is_eltwise
    /\ acc.is_like_binary
    /\ bsp.tail_size # 0
    /\ ~(esp.k_mask_ # bsp.tail_opmask)

\* the assert on the two mask registers: TRUE when it fires
MaskAssertFires(isa, acc, bsp, esp) ==
    /\ is_superset(isa, "avx512_core")
    /\ acc.is_eltwise
    /\ acc.is_like_binary
    /\ bsp.tail_size # 0
    /\ ~(esp.k_mask_ # bsp.tail_opmask)

MakeBinaryInjector_Never(isa, acc, bsp) == Null

\* the shared binary sub-generator made after the loop
MakeBinaryInjector(isa, acc, bsp) ==
    IF acc.is_like_binary THEN BinaryInjector(isa, bsp) ELSE Null

\* the constructor taking binary, eltwise and quantization static params and
\* the lambda injectors: the members it leaves, and whether its assert fired
jit_uni_postops_injector_t(isa, post_ops, bsp, esp, lambda_injectors) ==
    LET acc == CtorLoop(isa, post_ops, esp, 1, CtorStart) IN
    [isa |-> isa,
     post_ops_ |-> post_ops,
     alg_to_eltwise_injector_ |-> acc.alg_to_eltwise_injector_,
     depthwise_injectors |-> acc.depthwise_injectors,
     quantization_injectors |-> acc.quantization_injectors,
     binary_injector_ |-> MakeBinaryInjector(isa, acc, bsp),
     lambda_jit_injectors_ |-> lambda_injectors,
     post_ops_pointers_count |-> 0,
     assert_failed |-> MaskAssertFires(isa, acc, bsp, esp)]

\* the value of an eltwise enumerator of dnnl_alg_kind_t
alg_kind(alg) == IF alg = "eltwise_relu" THEN 31 ELSE 64

\* quantization_injector::static_params_t: what the constructor reads of it
QuantizationStaticParams == [vmm_d_weights_idx : {14}, vmm_d_bias_idx : {15}]

\* one iteration of the loop of the constructor taking eltwise and
\* quantization static params: eltwise sub-generators are keyed by the
\* entry's algorithm (keys are kept one above the code's, as positions are),
\* binary and prelu entries match no branch
CtorStepEsp(isa, post_ops, esp, i, acc) ==
    LET post_op == post_ops[i] IN
    IF is_eltwise(post_op)
    THEN [acc EXCEPT !.alg_to_eltwise_injector_ =
                         Emplace(@, alg_kind(post_op.alg) + 1,
                                 EltwiseInjector(isa, post_op, esp))]
    ELSE IF is_depthwise(post_op)
    THEN [acc EXCEPT !.depthwise_injectors = Append(@, DepthwiseInjector(isa, post_op))]
    ELSE IF is_quantization(post_op)
    THEN [acc EXCEPT !.quantization_injectors =
                         Append(@, QuantizationInjector(isa, post_op))]
    ELSE acc

RECURSIVE CtorLoopEsp(_, _, _, _, _)
CtorLoopEsp(isa, post_ops, esp, i, acc) ==
    IF i > Len(post_ops) THEN acc
    ELSE CtorLoopEsp(isa, post_ops, esp, i + 1, CtorStepEsp(isa, post_ops, esp, i, acc))

\* the constructor taking eltwise and quantization static params: the
\* members it leaves; binary_injector_ is initialised to nullptr and never set
jit_uni_postops_injector_t_esp_qsp(isa, post_ops, esp, qsp) ==
    LET acc == CtorLoopEsp(isa, post_ops, esp, 1, CtorStart) IN
    [isa |-> isa,
     post_ops_ |-> post_ops,
     alg_to_eltwise_injector_ |-> acc.alg_to_eltwise_injector_,
     depthwise_injectors |-> acc.depthwise_injectors,
     quantization_injectors |-> acc.quantization_injectors,
     binary_injector_ |-> Null,
     lambda_jit_injectors_ |-> <<>>,
     post_ops_pointers_count |-> 0,
     assert_failed |-> FALSE]

(***************************************************************************)
(* jit_uni_postops_injector_t::compute_vector_range.                       *)
(***************************************************************************)
\* longest chain an orchestrator or an epilogue kernel is built for
MaxChain == 3

\* the elements of a set of numbers in ascending order (iteration of std::set)
RECURSIVE Ascending(_)
Ascending(S) ==
    IF S = {} THEN <<>>
    ELSE LET m == CHOOSE x \in S : \A y \in S : x <= y
         IN <<m>> \o Ascending(S \ {m})

\* memoryStep() of a depthwise or quantization sub-generator: one pointer of
\* the auxiliary data table
memoryStep(inj) == PtrSize

\* one record of the emission log: the call made on a sub-generator (or the
\* instruction emitted) for the chain entry at position pos
Emit(pos, op, inj, idxs, base, off, arg, flag) ==
    [pos |-> pos, op |-> op, inj |-> inj, idxs |-> idxs, base |-> base, off |-> off,
     arg |-> arg, flag |-> flag]

CvrStart_Stale ==
    [rhs_arg_idx |-> 1, quantization_inj_idx |-> 0, depthwise_inj_idx |-> 0,
     post_ops_data_offset |-> PtrSize, emitted |-> <<>>]

\* the local variables of one compute_vector_range pass and what it emitted
CvrStart ==
    [rhs_arg_idx |-> 0, quantization_inj_idx |-> 0, depthwise_inj_idx |-> 0,
     post_ops_data_offset |-> 0, emitted |-> <<>>]

\* eltwise: the sub-generator stored under the entry's position
CvrEltwise(inj, a, i, st) ==
    [st EXCEPT !.emitted =
        Append(@, Emit(i, "eltwise.compute_vector_range", i, a.vmm_idxs, 0, 0, 0, FALSE))]

CvrBinary_EmitsFirst(inj, a, i, st) ==
    [st EXCEPT !.emitted = <<Emit(i, "binary.compute_vector_range", 0, a.vmm_idxs,
                                  0, 0, st.rhs_arg_idx, FALSE)>> \o @,
               !.rhs_arg_idx = @ + 1]

\* binary / prelu: the shared sub-generator, with the operand index
CvrBinary(inj, a, i, st) ==
    [st EXCEPT !.emitted = Append(@, Emit(i, "binary.compute_vector_range", 0, a.vmm_idxs,
                                          0, 0, st.rhs_arg_idx, FALSE)),
               !.rhs_arg_idx = @ + 1]

\* depthwise: need_to_preserve
need_to_preserve(inj, post_op) ==
    post_op.alg = "depthwise_prelu" /\ inj.isa = "sse41"

\* depthwise: the compute calls, one per register index in ascending order
DepthwiseComputes(inj, a, i, st) ==
    LET order == Ascending(a.vmm_idxs)
        ntp == need_to_preserve(inj, inj.post_ops_[i])
    IN [k \in DOMAIN order |->
           Emit(i, "depthwise.compute", st.depthwise_inj_idx + 1, {order[k]}, 0,
                a.ddp.vmm_idx_off[order[k]],
                IF ntp THEN 0 ELSE a.ddp.vmm_d_weights_idx, ntp)]

\* depthwise: the offset once the entry is done
AdvanceDepthwise(inj, st) ==
    st.post_ops_data_offset + memoryStep(inj.depthwise_injectors[st.depthwise_inj_idx + 1])

CvrDepthwise(inj, a, i, st) ==
    LET depthwise_arg_base == a.ddp.base_post_ops_data_offset + st.post_ops_data_offset IN
    [st EXCEPT !.emitted =
                   Append(@, Emit(i, "depthwise.init_ptrs", st.depthwise_inj_idx + 1, {},
                                  depthwise_arg_base, 0, 0, a.ddp.useAddr))
                   \o DepthwiseComputes(inj, a, i, st),
               !.post_ops_data_offset = AdvanceDepthwise(inj, st),
               !.rhs_arg_idx = @ + 1,
               !.depthwise_inj_idx = @ + 1]

vecOfVmmIdxsSets_OneGroup(a) ==
    <<[first |-> a.qdp.vmm_idx_off[CHOOSE v \in a.vmm_idxs : TRUE], second |-> a.vmm_idxs]>>

\* quantization: vecOfVmmIdxsSets, the register indices grouped by their
\* offset, groups in ascending offset order
vecOfVmmIdxsSets(a) ==
    LET offs == Ascending({a.qdp.vmm_idx_off[v] : v \in a.vmm_idxs}) IN
    [k \in DOMAIN offs |->
        [first |-> offs[k],
         second |-> {v \in a.vmm_idxs : a.qdp.vmm_idx_off[v] = offs[k]}]]

do_dequantization(post_op) == post_op.alg = "quantization_quantize_dequantize"

do_rounding_LastIncluded(inj, a, i) ==
    do_dequantization(inj.post_ops_[i]) \/ a.qdp.dst_dt = "f32"

do_rounding(inj, a, i) ==
    \/ do_dequantization(inj.post_ops_[i])
    \/ a.qdp.dst_dt = "f32"
    \/ i # Len(inj.post_ops_)

\* quantization: one of the three compute loops over the groups
QuantizationComputes(inj, a, i, st, op, flag) ==
    LET groups == vecOfVmmIdxsSets(a) IN
    [k \in DOMAIN groups |->
        Emit(i, op, st.quantization_inj_idx + 1, groups[k].second, 0, groups[k].first,
             0, flag)]

\* quantization: the offset once the entry is done
AdvanceQuantization(inj, st) ==
    st.post_ops_data_offset
    + memoryStep(inj.quantization_injectors[st.quantization_inj_idx + 1])

CvrQuantization(inj, a, i, st) ==
    LET quant_arg_base == a.qdp.base_post_ops_data_offset + st.post_ops_data_offset
        q == st.quantization_inj_idx + 1
    IN
    [st EXCEPT !.emitted =
                   Append(@, Emit(i, "quantization.init_crop_ptrs", q, {}, quant_arg_base,
                                  0, 0, a.qdp.useAddr))
                   \o QuantizationComputes(inj, a, i, st, "quantization.compute_crop", FALSE)
                   \o <<Emit(i, "quantization.init_input_scale_shift_ptrs", q, {},
                             quant_arg_base, 0, 0, a.qdp.useAddr)>>
                   \o QuantizationComputes(inj, a, i, st,
                                           "quantization.compute_input_scale_shift",
                                           do_rounding(inj, a, i))
                   \o <<Emit(i, "quantization.init_output_scale_shift_ptrs", q, {},
                             quant_arg_base, 0, 0, a.qdp.useAddr)>>
                   \o QuantizationComputes(inj, a, i, st,
                                           "quantization.compute_output_scale_shift", FALSE),
               !.post_ops_data_offset = AdvanceQuantization(inj, st),
               !.rhs_arg_idx = @ + 1,
               !.quantization_inj_idx = @ + 1]

CvrOther_AdvancesOperand(inj, a, i, st) ==
    LET kind == inj.post_ops_[i].kind IN
    IF kind \in DOMAIN inj.lambda_jit_injectors_
    THEN [st EXCEPT !.emitted =
             Append(@, Emit(i, "lambda", 0, {}, 0, 0, inj.lambda_jit_injectors_[kind], FALSE)),
                    !.rhs_arg_idx = @ + 1]
    ELSE st

\* any other kind: the lambda injector registered for the kind, if any
CvrOther(inj, a, i, st) ==
    LET kind == inj.post_ops_[i].kind IN
    IF kind \in DOMAIN inj.lambda_jit_injectors_
    THEN [st EXCEPT !.emitted =
             Append(@, Emit(i, "lambda", 0, {}, 0, 0, inj.lambda_jit_injectors_[kind], FALSE))]
    ELSE st

\* one iteration of the loop over the chain
CvrIteration(inj, a, i, st) ==
    LET post_op == inj.post_ops_[i] IN
    IF is_eltwise(post_op) THEN CvrEltwise(inj, a, i, st)
    ELSE IF is_like_binary(post_op) THEN CvrBinary(inj, a, i, st)
    ELSE IF is_depthwise(post_op) THEN CvrDepthwise(inj, a, i, st)
    ELSE IF is_quantization(post_op) THEN CvrQuantization(inj, a, i, st)
    ELSE CvrOther(inj, a, i, st)

\* how the iteration at position i can end: alg_to_eltwise_injector_.at(i)
\* throws std::out_of_range when no sub-generator is stored under i; the call
\* through a null binary_injector_ is undefined, it may fault or go through;
\* otherwise the loop goes on
CvrOutcomes(inj, i) ==
    LET post_op == inj.post_ops_[i] IN
    IF is_eltwise(post_op) /\ i \notin DOMAIN inj.alg_to_eltwise_injector_
    THEN {"out_of_range"}
    ELSE IF is_like_binary(post_op) /\ inj.binary_injector_ = Null
    THEN {"fault", "loop"}
    ELSE {"loop"}

(***************************************************************************)
(* jit_pp_kernel_t: construction and the apply_post_ops lambda of          *)
(* generate().                                                             *)
(***************************************************************************)
KernelIsas == {"sse41", "avx2", "avx512_core"}

\* the truth value of post_ops_.find(primitive_kind::prelu): find gives the
\* 0-based index of the first prelu entry, -1 when there is none
FindPreluIsTrue(post_ops) == (find(post_ops, "prelu") - 1) # 0

\* the loop of the constructor over the chain
RECURSIVE PpCtorLoop(_, _, _, _)
PpCtorLoop(isa, post_ops, i, acc) ==
    IF i > Len(post_ops) THEN acc
    ELSE LET post_op == post_ops[i] IN
         PpCtorLoop(isa, post_ops, i + 1,
            IF is_eltwise(post_op)
            THEN [acc EXCEPT !.jit_eltwise_injectors_ =
                                 Append(@, [isa |-> isa, alg |-> post_op.alg,
                                            alpha |-> post_op.alpha])]
            ELSE IF is_binary(post_op)
            THEN [acc EXCEPT !.with_binary = TRUE, !.only_eltwise = FALSE]
            ELSE IF is_depthwise(post_op)
            THEN [acc EXCEPT !.only_eltwise = FALSE,
                             !.jit_depthwise_injectors_ =
                                 Append(@, DepthwiseInjector(isa, post_op))]
            ELSE [acc EXCEPT !.only_eltwise = FALSE])

\* the constructor: the injectors and the vector register indices it assigns
\* (an unassigned Vmm member keeps index 0)
jit_pp_kernel_t(isa, post_ops) ==
    LET narrow == isa \in {"avx2", "sse41"}
        start1 == IF narrow THEN 1 ELSE 0
        withPrelu == FindPreluIsTrue(post_ops)
        prelu_tmp_vmm_idx == IF withPrelu THEN start1 ELSE 0
        start2 == IF withPrelu THEN start1 + 1 ELSE start1
        acc == PpCtorLoop(isa, post_ops, 1,
                          [jit_eltwise_injectors_ |-> <<>>, jit_depthwise_injectors_ |-> <<>>,
                           with_binary |-> FALSE, only_eltwise |-> TRUE])
        max0 == IF isa = "avx512_core" THEN 31 ELSE 15
        reserve == Len(post_ops) > 0 /\ ~acc.only_eltwise
    IN
    [isa |-> isa,
     post_ops_ |-> post_ops,
     jit_eltwise_injectors_ |-> acc.jit_eltwise_injectors_,
     jit_depthwise_injectors_ |-> acc.jit_depthwise_injectors_,
     jit_binary_injector_ |->
         IF acc.with_binary
         THEN [isa |-> isa, helper_vmm_idx |-> 15, tail_size |-> 0,
               tail_opmask |-> "kreg_rem_mask",
               prelu_tmp_vmm_idx |-> prelu_tmp_vmm_idx]
         ELSE Null,
     prelu_tmp_vmm_idx |-> prelu_tmp_vmm_idx,
     vreg_d_weights |-> IF reserve THEN max0 ELSE 0,
     vreg_d_bias |-> IF reserve THEN max0 - 1 ELSE 0,
     vreg_zero |-> IF narrow THEN start2 ELSE 0,
     vreg_tmp |-> IF narrow THEN start2 + 1 ELSE 0,
     idx_compute_vreg_start_ |-> IF narrow THEN start2 + 2 ELSE start2,
     idx_compute_vreg_max_ |-> IF reserve THEN max0 - 2 ELSE max0]

idx_vreg_dst(k) == k.idx_compute_vreg_start_ + 0

idx_vreg_bias(k) == k.idx_compute_vreg_start_ + 1

\* the local variables of one apply_post_ops pass and what it emitted
PpStart ==
    [eltwise_inj_idx |-> 0, binary_inj_idx |-> 0, depthwise_inj_idx |-> 0,
     post_ops_data_offset |-> 0, emitted |-> <<>>]

PpEltwise(k, a, i, st) ==
    [st EXCEPT !.emitted = Append(@, Emit(i, "eltwise.compute_vector", st.eltwise_inj_idx + 1,
                                          {idx_vreg_dst(k)}, 0, 0, 0, FALSE)),
               !.eltwise_inj_idx = @ + 1]

\* binary: the tail index is passed when the CPU has avx512_core and the
\* pass is the masked one
PpBinary(k, a, i, st) ==
    [st EXCEPT !.emitted = Append(@, Emit(i, "binary.compute_vector", 0, {idx_vreg_dst(k)},
                                          0, 0, st.binary_inj_idx,
                                          a.mayiuse_avx512_core /\ a.apply_mask)),
               !.binary_inj_idx = @ + 1]

PpAdvanceDepthwise(k, st) ==
    st.post_ops_data_offset
    + memoryStep(k.jit_depthwise_injectors_[st.depthwise_inj_idx + 1])

PpDepthwise(k, a, i, st) ==
    [st EXCEPT !.emitted =
                   @ \o <<Emit(i, "mov reg_d_weights", 0, {}, st.post_ops_data_offset, 0, 0,
                               FALSE),
                          Emit(i, "depthwise.compute_vector_range", st.depthwise_inj_idx + 1,
                               {idx_vreg_dst(k)}, 0, 0, 0, TRUE)>>,
               !.post_ops_data_offset = PpAdvanceDepthwise(k, st),
               !.binary_inj_idx = @ + 1,
               !.depthwise_inj_idx = @ + 1]

PpAdvanceQuantization_Forgotten(k, st) == st.post_ops_data_offset

\* quantization: the offset grows by sizeof(float*)
PpAdvanceQuantization(k, st) == st.post_ops_data_offset + PtrSize

\* quantization is emitted inline: crop, input scale and shift, rounding
\* (do_rounding is the constant true), output scale and shift when
\* dequantizing
PpQuantization(k, a, i, st) ==
    LET deq == do_dequantization(k.post_ops_[i])
        dst == {idx_vreg_dst(k)}
    IN
    [st EXCEPT !.emitted =
                   @ \o <<Emit(i, "mov reg_d_weights", 0, {}, st.post_ops_data_offset, 0, 0,
                               FALSE),
                          Emit(i, "crop", 0, dst, 0, 0, 0, FALSE),
                          Emit(i, "input_scale_shift", 0, dst, 0, 0, 0, FALSE),
                          Emit(i, "round", 0, dst, 0, 0, 0, TRUE)>>
                     \o (IF deq THEN <<Emit(i, "output_scale_shift", 0, dst, 0, 0, 0, FALSE)>>
                         ELSE <<>>),
               !.post_ops_data_offset = PpAdvanceQuantization(k, st),
               !.binary_inj_idx = @ + 1]

\* one iteration of the loop of apply_post_ops; an entry of another kind
\* (sum, prelu) matches no branch
PpIteration(k, a, i, st) ==
    LET post_op == k.post_ops_[i] IN
    IF is_eltwise(post_op) THEN PpEltwise(k, a, i, st)
    ELSE IF is_binary(post_op) THEN PpBinary(k, a, i, st)
    ELSE IF is_depthwise(post_op) THEN PpDepthwise(k, a, i, st)
    ELSE IF is_quantization(post_op) THEN PpQuantization(k, a, i, st)
    ELSE st

(***************************************************************************)
(* jit_pp_kernel_t: the code generate() emits, as it runs on one           *)
(* invocation jit_generator::operator()(&args).                            *)
(***************************************************************************)
\* longest output row handed to the kernel
MaxRunLen == 35

\* vlen: floats per vector register of the kernel's ISA
vlen(isa) ==
    CASE isa = "avx512_core" -> 16
      [] isa = "avx2" -> 8
      [] isa = "sse41" -> 4

\* the post-op instructions one compute(apply_mask) holds: a whole
\* apply_post_ops pass
RECURSIVE PpPassFrom(_, _, _, _)
PpPassFrom(k, a, i, st) ==
    IF i > Len(k.post_ops_) THEN st
    ELSE PpPassFrom(k, a, i + 1, PpIteration(k, a, i, st))

apply_post_ops(k, apply_mask) ==
    PpPassFrom(k, [apply_mask |-> apply_mask, mayiuse_avx512_core |-> k.isa = "avx512_core"],
               1, PpStart).emitted

\* l_table of the avx2 / sse41 kernels: vlen words of ones, then vlen of zeros
l_table(isa) == [w \in 0..(2 * vlen(isa) - 1) |-> w < vlen(isa)]

TailLanes_OneMore(isa, reg_len) == 0..reg_len

\* the lanes the tail mask enables for reg_len remaining elements:
\* (1 << reg_len) - 1 in kreg_rem_mask, or the vlen words of l_table that
\* start at word vlen - reg_len in vreg_mask
TailLanes(isa, reg_len) ==
    IF isa = "avx512_core"
    THEN {b \in 0..(vlen(isa) - 1) : ((2 ^ reg_len - 1) \div (2 ^ b)) % 2 = 1}
    ELSE {b \in 0..(vlen(isa) - 1) : l_table(isa)[vlen(isa) - reg_len + b]}

AllLanes(isa) == 0..(vlen(isa) - 1)

\* compute(apply_mask) at row position reg_dst: the elements its load reads,
\* the bias add, the post-ops, the elements its store writes
compute(k, apply_mask, do_bias, reg_dst, lanes) ==
    LET at(L) == {reg_dst + b : b \in L} IN
    [apply_mask |-> apply_mask,
     lanes |-> IF apply_mask THEN lanes ELSE AllLanes(k.isa),
     loaded |-> IF apply_mask /\ k.isa # "sse41" THEN at(lanes) ELSE at(AllLanes(k.isa)),
     bias |-> do_bias,
     post_ops |-> apply_post_ops(k, apply_mask),
     stored |-> IF apply_mask THEN at(lanes) ELSE at(AllLanes(k.isa))]

\* cmp(reg_len, vlen) and the jump that follows it
AfterCmpVlen(k, reg_len) == IF reg_len < vlen(k.isa) THEN "loop_tail" ELSE "loop"

\* the kernel's entry: the arguments are loaded, an empty row goes to loop_end
KernelEntry(k, len, do_bias) ==
    [pc |-> IF len = 0 THEN "loop_end" ELSE AfterCmpVlen(k, len),
     len |-> len, do_bias |-> do_bias, reg_len |-> len, reg_dst |-> 0, computes |-> <<>>]

\* L(loop): one full-width iteration
KernelLoopBody(k, r) ==
    [r EXCEPT !.computes = Append(@, compute(k, FALSE, r.do_bias, r.reg_dst, {})),
              !.reg_len = @ - vlen(k.isa),
              !.reg_dst = @ + vlen(k.isa),
              !.pc = IF r.reg_len - vlen(k.isa) >= vlen(k.isa) THEN "loop" ELSE "loop_tail"]

\* whether the code at loop_tail jumps to loop_end before compute(true)
TailShortCut(k, reg_len) == k.isa = "avx512_core" /\ 2 ^ reg_len - 1 = 0

\* L(loop_tail): the mask, and compute(true) unless the jump is taken
KernelLoopTail(k, r) ==
    IF TailShortCut(k, r.reg_len)
    THEN [r EXCEPT !.pc = "loop_end"]
    ELSE [r EXCEPT !.computes = Append(@, compute(k, TRUE, r.do_bias, r.reg_dst,
                                                 TailLanes(k.isa, r.reg_len))),
                   !.pc = "loop_end"]

(***************************************************************************)
(* jit_uni_postops_injector_base_t<Vmm>::create, the ISA dispatcher.       *)
(***************************************************************************)
Widths == {"Zmm", "Ymm", "Xmm"}

\* the tiers of the CASE_EXACT_MATCH lines of a register width, in order
ExactMatchList(width) ==
    CASE width = "Zmm" -> <<"avx512_core_fp16", "avx512_core_bf16", "avx512_core">>
      [] width = "Ymm" -> <<"avx512_core_fp16", "avx512_core", "avx2_vnni_2", "avx2", "avx">>
      [] width = "Xmm" ->
             <<"avx512_core_fp16", "avx512_core", "avx2_vnni_2", "avx2", "avx", "sse41">>

\* the tiers of the CASE_MAYIUSE lines of a register width, in order
MayiuseList(width) ==
    CASE width = "Zmm" -> <<"avx512_core_fp16", "avx512_core_bf16", "avx512_core">>
      [] width = "Ymm" -> <<"avx512_core_fp16", "avx512_core", "avx2_vnni_2", "avx2", "avx">>
      [] width = "Xmm" ->
             <<"avx512_core_fp16", "avx512_core", "avx2_vnni_2", "avx2", "avx", "sse41">>

\* the running CPU, named by its best tier; "none" has not even sse41
Cpus == AllIsas \cup {"none"}

\* mayiuse(tier) on a CPU
mayiuse(cpu, tier) == cpu # "none" /\ is_superset(cpu, tier)

\* the first tier of the list from position k on that mayiuse allows, "" if none
RECURSIVE FirstMayiuse(_, _, _)
FirstMayiuse(cpu, list, k) ==
    IF k > Len(list) THEN ""
    ELSE IF mayiuse(cpu, list[k]) THEN list[k]
    ELSE FirstMayiuse(cpu, list, k + 1)

\* what create does once no line has returned: assert(!"Kernel is empty!")
\* aborts a build that keeps assertions, a build without them goes on to
\* return nullptr
KernelIsEmpty(assertions) == IF assertions THEN "abort" ELSE "nullptr"

\* create: the tier the orchestrator is instantiated for, or how it ends
\* without one
create(width, isa, cpu, assertions) ==
    IF isa \in Range(ExactMatchList(width))
    THEN [outcome |-> "returned", isa |-> isa]
    ELSE LET t == FirstMayiuse(cpu, MayiuseList(width), 1) IN
         IF t # "" THEN [outcome |-> "returned", isa |-> t]
         ELSE [outcome |-> KernelIsEmpty(assertions), isa |-> ""]

(***************************************************************************)
(* push_post_ops_data_on_stack and reset_stack_pointer.                    *)
(***************************************************************************)
\* most calls of the two made on one orchestrator
MaxStackCalls == 4

\* the entries of a chain that own a pointer of the auxiliary table
NumPointers(post_ops) ==
    Cardinality({i \in DOMAIN post_ops : is_depthwise(post_ops[i]) \/ is_quantization(post_ops[i])})

\* the member post_ops_pointers_count after the counting loop
CountPointers(inj) == inj.post_ops_pointers_count + NumPointers(inj.post_ops_)

\* what one call emitted: the bytes it moves rsp by, the table slots it
\* copies in order, the number of instructions
StackCall(op, bytes, copied, instrs) ==
    [op |-> op, bytes |-> bytes, copied |-> copied, instrs |-> instrs]

push_post_ops_data_on_stack(inj) ==
    LET c == CountPointers(inj) IN
    [injector |-> [inj EXCEPT !.post_ops_pointers_count = c],
     call |-> IF c # 0
              THEN StackCall("push", c * PtrSize, [s \in 1..c |-> s - 1], 2 + 2 * c)
              ELSE StackCall("push", 0, <<>>, 0)]

reset_stack_pointer_ChainOnly(inj) ==
    IF NumPointers(inj.post_ops_) # 0
    THEN StackCall("reset", NumPointers(inj.post_ops_) * PtrSize, <<>>, 1)
    ELSE StackCall("reset", 0, <<>>, 0)

reset_stack_pointer(inj) ==
    IF inj.post_ops_pointers_count # 0
    THEN StackCall("reset", inj.post_ops_pointers_count * PtrSize, <<>>, 1)
    ELSE StackCall("reset", 0, <<>>, 0)

\* set_lambda_injector(kind, jit_injector)
set_lambda_injector(inj, kind, jit_injector) ==
    [inj EXCEPT !.lambda_jit_injectors_ =
        [k \in DOMAIN @ \cup {kind} |-> IF k = kind THEN jit_injector ELSE @[k]]]

(***************************************************************************)
(* jit_pp_kernel_create, the factory of the epilogue kernel.               *)
(***************************************************************************)
\* default_strategies(): the broadcasting strategies the kernel enables
default_strategies == {"scalar", "per_oc", "per_oc_spatial"}

\* jit_pp_kernel_t<isa>::post_ops_ok(pd): only binary entries are examined
pp_post_ops_ok(isa, post_ops, dst) ==
    \A i \in DOMAIN post_ops :
        is_binary(post_ops[i]) =>
            binary_is_supported(isa, get_src1_desc(post_ops[i], dst), dst, default_strategies)

\* jit_pp_kernel_create: the kernel of the first ISA, best first, that the CPU
\* has and whose post_ops_ok accepts the chain; nullptr when there is none
jit_pp_kernel_create(cpu, post_ops, dst) ==
    IF mayiuse(cpu, "avx512_core") /\ pp_post_ops_ok("avx512_core", post_ops, dst)
    THEN jit_pp_kernel_t("avx512_core", post_ops)
    ELSE IF mayiuse(cpu, "avx2") /\ pp_post_ops_ok("avx2", post_ops, dst)
    THEN jit_pp_kernel_t("avx2", post_ops)
    ELSE IF mayiuse(cpu, "sse41") /\ pp_post_ops_ok("sse41", post_ops, dst)
    THEN jit_pp_kernel_t("sse41", post_ops)
    ELSE Null

(***************************************************************************)
(* State.                                                                  *)
(***************************************************************************)
VARIABLES
    okArgs,
    okRet,
    okEvaluated,
    injector,
    kernel,
    pc,
    args,
    pos,
    locals,
    run,
    disp,
    stack

\* okArgs:      the post_ops_ok_args_t of the call made, NoCall before it
\* okRet:       what post_ops_ok returned
\* okEvaluated: how many chain entries post_ops_ok handed to is_accepted_postop
\* injector:    the jit_uni_postops_injector_t built, NoInjector before that
\* kernel:      the jit_pp_kernel_t built, NoKernel when there is none
\* pc:          "idle", "loop" inside a compute_vector_range / apply_post_ops
\*              pass, "done" after it
\* args:        the arguments of the last call made on the orchestrator or on
\*              the kernel
\* pos:         the position of the chain entry the loop handles next (1-based)
\* locals:      the local variables of the pass, and what it has emitted
\* run:         one invocation of the generated epilogue kernel
\* disp:        the call of create() made, and how it ended
\* stack:       what the code emitted by push_post_ops_data_on_stack and
\*              reset_stack_pointer does to the stack

okVars == <<okArgs, okRet, okEvaluated>>

emitVars == <<kernel, pc, args, pos, locals>>

auxVars == <<run, disp, stack>>

vars == <<okArgs, okRet, okEvaluated, injector, kernel, pc, args, pos, locals, run, disp, stack>>

NoCall == [isa |-> "none"]

NoInjector == [isa |-> "none"]

NoKernel == [isa |-> "none"]

NoArgs == [apply_mask |-> FALSE]

NoRun == [pc |-> "idle"]

NoCreate == [width |-> "none"]

\* the stack before any emitted code has run: rsp as deep as at entry
StackStart == [rsp |-> 0, calls |-> <<>>]

\* nothing has run yet beside what the specification's own Init builds
AuxIdle ==
    /\ run = NoRun
    /\ disp = NoCreate
    /\ stack = StackStart

(***************************************************************************)
(* Validity check followed by construction.                                *)
(***************************************************************************)
InitOk ==
    /\ okArgs = NoCall
    /\ okRet = FALSE
    /\ okEvaluated = 0
    /\ injector = NoInjector
    /\ kernel = NoKernel
    /\ pc = "idle"
    /\ args = NoArgs
    /\ pos = 0
    /\ locals = CvrStart
    /\ AuxIdle

\* a primitive builder calls post_ops_ok
CallPostOpsOk ==
    /\ okArgs = NoCall
    /\ \E a \in OkArgs :
         /\ okArgs' = a
         /\ okRet' = post_ops_ok(a).ret
         /\ okEvaluated' = post_ops_ok(a).evaluated
    /\ UNCHANGED injector
    /\ UNCHANGED emitVars
    /\ UNCHANGED auxVars

\* the builder constructs the orchestrator for the chain it had approved
ConstructAccepted ==
    /\ okArgs # NoCall
    /\ okRet
    /\ injector = NoInjector
    /\ \E bsp \in BinaryStaticParams, esp \in EltwiseStaticParams :
         injector' = jit_uni_postops_injector_t(okArgs.isa, okArgs.post_ops, bsp, esp, <<>>)
    /\ UNCHANGED okVars
    /\ UNCHANGED emitVars
    /\ UNCHANGED auxVars

NextOk == CallPostOpsOk \/ ConstructAccepted

SpecOk == InitOk /\ [][NextOk]_vars

(***************************************************************************)
(* Emission: compute_vector_range passes of an orchestrator, and           *)
(* apply_post_ops passes of an epilogue kernel.                            *)
(***************************************************************************)
EmitEntries ==
    {SumEntry(1, 0), EltwiseEntry("eltwise_relu", 0), BinaryEntry("per_oc_bf16"),
     DepthwiseEntry("depthwise_scale_shift"), DepthwiseEntry("depthwise_prelu"),
     QuantizationEntry("quantization_quantize"),
     QuantizationEntry("quantization_quantize_dequantize")}

EmitChains == SeqsUpTo(EmitEntries, MaxChain)

\* the kinds a callback is registered for, and the callbacks
LambdaKinds == {"sum"}

LambdaCallbacks == {"sum_injector", "sum_injector_2"}

\* lambda_jit_injectors_t values: no callback, or one for sum
LambdaMaps == {<<>>, [k \in {"sum"} |-> "sum_injector"]}

\* the register index sets a pass is called with, and the offset of each index
VmmConfigs ==
    {[vmm_idxs |-> {1}, vmm_idx_off |-> (1 :> 0)],
     [vmm_idxs |-> {1, 2, 3}, vmm_idx_off |-> (1 :> 4) @@ (2 :> 0) @@ (3 :> 4)]}

\* the arguments of compute_vector_range: vmm_idxs, ddp, qdp, is_broadcast
CvrArgs ==
    {[vmm_idxs |-> c.vmm_idxs,
      ddp |-> [base_post_ops_data_offset |-> b[1], useAddr |-> u, vmm_d_weights_idx |-> 14,
               vmm_idx_off |-> c.vmm_idx_off],
      qdp |-> [base_post_ops_data_offset |-> b[2], useAddr |-> u, dst_dt |-> dt,
               vmm_idx_off |-> c.vmm_idx_off],
      is_broadcast |-> FALSE] :
        c \in VmmConfigs, b \in {<<0, 0>>, <<16, 32>>}, u \in BOOLEAN, dt \in {"f32", "u8"}}

\* the arguments of apply_post_ops, and what mayiuse(avx512_core) answers
PpArgs == [apply_mask : BOOLEAN, mayiuse_avx512_core : BOOLEAN]

InitEmit ==
    /\ okArgs = NoCall
    /\ okRet = FALSE
    /\ okEvaluated = 0
    /\ \/ /\ \E isa \in Isas, chain \in EmitChains, lam \in LambdaMaps :
               injector = jit_uni_postops_injector_t(isa, chain,
                              [tail_opmask |-> 1, tail_size |-> 0], [k_mask_ |-> 2], lam)
          /\ kernel = NoKernel
       \/ /\ injector = NoInjector
          /\ \E isa \in KernelIsas, chain \in EmitChains : kernel = jit_pp_kernel_t(isa, chain)
    /\ pc = "idle"
    /\ args = NoArgs
    /\ pos = 0
    /\ locals = CvrStart
    /\ AuxIdle

\* compute_vector_range is entered: the locals are zeroed
CallComputeVectorRange ==
    /\ injector # NoInjector
    /\ pc \in {"idle", "done"}
    /\ \E a \in CvrArgs : args' = a
    /\ pc' = "loop"
    /\ pos' = 1
    /\ locals' = CvrStart
    /\ UNCHANGED <<okVars, injector, kernel>>
    /\ UNCHANGED auxVars

\* one iteration of its loop
ComputeVectorRangeIteration ==
    /\ injector # NoInjector
    /\ pc = "loop"
    /\ pos <= Len(injector.post_ops_)
    /\ \E outcome \in CvrOutcomes(injector, pos) :
         /\ pc' = outcome
         /\ IF outcome = "loop"
            THEN /\ locals' = CvrIteration(injector, args, pos, locals)
                 /\ pos' = pos + 1
            ELSE UNCHANGED <<locals, pos>>
    /\ UNCHANGED <<okVars, injector, kernel, args>>
    /\ UNCHANGED auxVars

\* the loop is over and compute_vector_range returns
ComputeVectorRangeReturn ==
    /\ injector # NoInjector
    /\ pc = "loop"
    /\ pos > Len(injector.post_ops_)
    /\ pc' = "done"
    /\ UNCHANGED <<okVars, injector, kernel, args, pos, locals>>
    /\ UNCHANGED auxVars

\* apply_post_ops is entered
CallApplyPostOps ==
    /\ kernel # NoKernel
    /\ pc \in {"idle", "done"}
    /\ \E a \in PpArgs : args' = a
    /\ pc' = "loop"
    /\ pos' = 1
    /\ locals' = PpStart
    /\ UNCHANGED <<okVars, injector, kernel>>
    /\ UNCHANGED auxVars

ApplyPostOpsIteration ==
    /\ kernel # NoKernel
    /\ pc = "loop"
    /\ pos <= Len(kernel.post_ops_)
    /\ locals' = PpIteration(kernel, args, pos, locals)
    /\ pos' = pos + 1
    /\ UNCHANGED <<okVars, injector, kernel, pc, args>>
    /\ UNCHANGED auxVars

ApplyPostOpsReturn ==
    /\ kernel # NoKernel
    /\ pc = "loop"
    /\ pos > Len(kernel.post_ops_)
    /\ pc' = "done"
    /\ UNCHANGED <<okVars, injector, kernel, args, pos, locals>>
    /\ UNCHANGED auxVars

\* the kernel registers a callback for a kind, between two passes
SetLambdaInjector ==
    /\ injector # NoInjector
    /\ pc \in {"idle", "done"}
    /\ \E kind \in LambdaKinds, jit_injector \in LambdaCallbacks :
         /\ injector' = set_lambda_injector(injector, kind, jit_injector)
         /\ args' = [kind |-> kind, jit_injector |-> jit_injector]
    /\ pc' = "idle"
    /\ UNCHANGED <<okVars, kernel, pos, locals>>
    /\ UNCHANGED auxVars

NextEmit ==
    \/ SetLambdaInjector
    \/ CallComputeVectorRange
    \/ ComputeVectorRangeIteration
    \/ ComputeVectorRangeReturn
    \/ CallApplyPostOps
    \/ ApplyPostOpsIteration
    \/ ApplyPostOpsReturn

SpecEmit == InitEmit /\ [][NextEmit]_vars

(***************************************************************************)
(* Runs of the generated epilogue kernel.                                  *)
(***************************************************************************)
RunChains == {<<>>, <<EltwiseEntry("eltwise_relu", 0)>>,
              <<DepthwiseEntry("depthwise_scale_shift")>>}

InitRun ==
    /\ okArgs = NoCall
    /\ okRet = FALSE
    /\ okEvaluated = 0
    /\ injector = NoInjector
    /\ \E isa \in KernelIsas, chain \in RunChains : kernel = jit_pp_kernel_t(isa, chain)
    /\ pc = "idle"
    /\ args = NoArgs
    /\ pos = 0
    /\ locals = CvrStart
    /\ AuxIdle

\* operator() calls the generated code for one row of len elements
CallKernel ==
    /\ run.pc \in {"idle", "returned"}
    /\ \E len \in 0..MaxRunLen, do_bias \in BOOLEAN : run' = KernelEntry(kernel, len, do_bias)
    /\ UNCHANGED <<okVars, injector, emitVars, disp, stack>>

KernelLoop ==
    /\ run.pc = "loop"
    /\ run' = KernelLoopBody(kernel, run)
    /\ UNCHANGED <<okVars, injector, emitVars, disp, stack>>

KernelTail ==
    /\ run.pc = "loop_tail"
    /\ run' = KernelLoopTail(kernel, run)
    /\ UNCHANGED <<okVars, injector, emitVars, disp, stack>>

\* L(loop_end): postamble and ret
KernelReturn ==
    /\ run.pc = "loop_end"
    /\ run' = [run EXCEPT !.pc = "returned"]
    /\ UNCHANGED <<okVars, injector, emitVars, disp, stack>>

NextRun == CallKernel \/ KernelLoop \/ KernelTail \/ KernelReturn

SpecRun == InitRun /\ [][NextRun]_vars

(***************************************************************************)
(* Creation of the epilogue kernel for a convolution, and the              *)
(* apply_post_ops passes of its generate().                                *)
(***************************************************************************)
KernelEntries ==
    {EltwiseEntry("eltwise_relu", 0), BinaryEntry("per_oc_f32"), BinaryEntry("per_oc_bf16"),
     PreluEntry, DepthwiseEntry("depthwise_scale_shift"),
     QuantizationEntry("quantization_quantize")}

KernelChains == SeqsUpTo(KernelEntries, MaxChain)

\* the convolution asks for its epilogue kernel
CreateKernel ==
    /\ kernel = NoKernel
    /\ \E cpu \in Cpus, post_ops \in KernelChains, dst \in {"nchw", "nChw16c"} :
         LET k == jit_pp_kernel_create(cpu, post_ops, dst) IN
         kernel' = IF k = Null THEN NoKernel ELSE k
    /\ UNCHANGED <<okVars, injector, pc, args, pos, locals>>
    /\ UNCHANGED auxVars

NextKernel ==
    \/ CreateKernel
    \/ CallApplyPostOps
    \/ ApplyPostOpsIteration
    \/ ApplyPostOpsReturn

SpecKernel == InitOk /\ [][NextKernel]_vars

(***************************************************************************)
(* SpecCtor: an orchestrator is constructed through either constructor and *)
(* emits passes.                                                           *)
(***************************************************************************)
CtorEntries ==
    {EltwiseEntry("eltwise_relu", 0), EltwiseEntry("eltwise_relu", 1),
     BinaryEntry("per_oc_f32"), PreluEntry, DepthwiseEntry("depthwise_scale_shift")}

CtorChains == SeqsUpTo(CtorEntries, MaxChain)

\* the constructor taking binary static params is called
ConstructBinaryParams ==
    /\ injector = NoInjector
    /\ \E isa \in Isas, post_ops \in CtorChains, esp \in EltwiseStaticParams :
         injector' = jit_uni_postops_injector_t(isa, post_ops,
                         [tail_opmask |-> 2, tail_size |-> 0], esp, <<>>)
    /\ UNCHANGED okVars
    /\ UNCHANGED emitVars
    /\ UNCHANGED auxVars

\* the constructor taking eltwise and quantization static params is called
ConstructEltwiseParams ==
    /\ injector = NoInjector
    /\ \E isa \in Isas, post_ops \in CtorChains, esp \in EltwiseStaticParams,
          qsp \in QuantizationStaticParams :
         injector' = jit_uni_postops_injector_t_esp_qsp(isa, post_ops, esp, qsp)
    /\ UNCHANGED okVars
    /\ UNCHANGED emitVars
    /\ UNCHANGED auxVars

NextCtor ==
    \/ ConstructBinaryParams
    \/ ConstructEltwiseParams
    \/ CallComputeVectorRange
    \/ ComputeVectorRangeIteration
    \/ ComputeVectorRangeReturn

SpecCtor == InitOk /\ [][NextCtor]_vars

(***************************************************************************)
(* Calls of the dispatcher.                                                *)
(***************************************************************************)
DispChains == {<<>>, <<EltwiseEntry("eltwise_relu", 0), BinaryEntry("per_oc_bf16")>>}

\* a kernel calls create; what it gets back is held in injector
Create ==
    /\ disp = NoCreate
    /\ \E width \in Widths, isa \in AllIsas, cpu \in Cpus, assertions \in BOOLEAN,
          post_ops \in DispChains, bsp \in BinaryStaticParams, esp \in EltwiseStaticParams :
         LET c == create(width, isa, cpu, assertions) IN
         /\ disp' = [width |-> width, isa |-> isa, cpu |-> cpu, assertions |-> assertions,
                     outcome |-> c.outcome]
         /\ injector' = IF c.outcome = "returned"
                        THEN jit_uni_postops_injector_t(c.isa, post_ops, bsp, esp, <<>>)
                        ELSE NoInjector
    /\ UNCHANGED <<okVars, emitVars, run, stack>>

NextCreate == Create

SpecCreate == InitOk /\ [][NextCreate]_vars

(***************************************************************************)
(* Reuse of one orchestrator: the stack helpers and compute_vector_range   *)
(* passes, in any order.                                                   *)
(***************************************************************************)
StackEntries ==
    {EltwiseEntry("eltwise_relu", 0), DepthwiseEntry("depthwise_scale_shift"),
     QuantizationEntry("quantization_quantize")}

InitStack ==
    /\ okArgs = NoCall
    /\ okRet = FALSE
    /\ okEvaluated = 0
    /\ \E chain \in SeqsUpTo(StackEntries, MaxChain) :
         injector = jit_uni_postops_injector_t("avx512_core", chain,
                        [tail_opmask |-> 1, tail_size |-> 0], [k_mask_ |-> 2], <<>>)
    /\ kernel = NoKernel
    /\ pc = "idle"
    /\ args = NoArgs
    /\ pos = 0
    /\ locals = CvrStart
    /\ AuxIdle

PushPostOpsDataOnStack ==
    /\ pc \in {"idle", "done"}
    /\ Len(stack.calls) < MaxStackCalls
    /\ LET p == push_post_ops_data_on_stack(injector) IN
         /\ injector' = p.injector
         /\ stack' = [rsp |-> stack.rsp - p.call.bytes, calls |-> Append(stack.calls, p.call)]
    /\ UNCHANGED <<okVars, emitVars, run, disp>>

ResetStackPointer ==
    /\ pc \in {"idle", "done"}
    /\ Len(stack.calls) < MaxStackCalls
    /\ LET c == reset_stack_pointer(injector) IN
         stack' = [rsp |-> stack.rsp + c.bytes, calls |-> Append(stack.calls, c)]
    /\ UNCHANGED <<okVars, injector, emitVars, run, disp>>

NextStack ==
    \/ PushPostOpsDataOnStack
    \/ ResetStackPointer
    \/ CallComputeVectorRange
    \/ ComputeVectorRangeIteration
    \/ ComputeVectorRangeReturn

SpecStack == InitStack /\ [][NextStack]_vars

(***************************************************************************)
(* Claims about post_ops_ok (checked under SpecOk).                        *)
(***************************************************************************)
Called == okArgs # NoCall

Chain == okArgs.post_ops

Accepted == Range(okArgs.accepted_post_op_types)

DstConcrete == okArgs.dst_d \in {"nchw", "nChw16c"}

LikeBinaryKinds == {"binary", "prelu"}

\* the entry's kind is one of the listed kinds, taken literally
ListedLiterally(e) == e.kind \in Accepted

\* the entry's kind is one of the listed kinds, binary and prelu standing for
\* each other
Listed(e) ==
    \/ e.kind \in Accepted
    \/ e.kind \in LikeBinaryKinds /\ Accepted \cap LikeBinaryKinds # {}

SumPositions == {i \in DOMAIN Chain : Chain[i].kind = "sum"}

FirstSum == Chain[CHOOSE i \in SumPositions : \A j \in SumPositions : i <= j]

DiffersFromFirstSum(e) ==
    e.scale # FirstSum.scale \/ e.zero_point # FirstSum.zero_point

\* the requirement the validity checker puts on an entry of each kind
PerKindCheck(i) ==
    LET e == Chain[i] IN
    CASE e.kind = "sum" ->
           /\ okArgs.sum_requires_same_params => ~DiffersFromFirstSum(e)
           /\ okArgs.sum_requires_scale_one => e.scale = 1
           /\ okArgs.sum_requires_zp_zero => e.zero_point = 0
           /\ okArgs.sum_at_pos_0_only => i = 1
      [] e.kind = "eltwise" -> eltwise_is_supported(okArgs.isa, e.alg)
      [] e.kind \in LikeBinaryKinds ->
           binary_is_supported(okArgs.isa, get_src1_desc(e, okArgs.dst_d), okArgs.dst_d,
                               okArgs.enabled_bcast_strategy)
      [] e.kind \in {"depthwise", "quantization"} -> TRUE
      [] OTHER -> FALSE

\* the verdict post_ops_ok reached on the i-th entry it evaluated: every
\* evaluated entry but the last was accepted, the last one decides the result
VerdictOf(i) == IF i < okEvaluated THEN TRUE ELSE okRet

\* the entry that made post_ops_ok return false (when it got past the
\* destination check)
Rejected == ~okRet /\ okEvaluated >= 1

RejectingEntry == Chain[okEvaluated]

\* C1 as stated: post_ops_ok returns false whenever some entry's kind is none
\* of the kinds listed in accepted_post_op_types; it returns true only if
\* every entry passes its per-kind check; an empty chain with a concrete
\* layout is accepted.
C1_AsStated ==
    Called =>
        /\ (\E i \in DOMAIN Chain : ~ListedLiterally(Chain[i])) => ~okRet
        /\ okRet => \A i \in DOMAIN Chain : PerKindCheck(i)
        /\ (Chain = <<>> /\ DstConcrete) => okRet

\* C1 amended: the same, where a binary or prelu entry counts as listed as
\* soon as binary or prelu is listed (the switch treats the two types as one
\* case, guarded by is_like_binary).
C1_UnlistedKindRejected ==
    Called =>
        /\ (\E i \in DOMAIN Chain : ~Listed(Chain[i])) => ~okRet
        /\ okRet => \A i \in DOMAIN Chain : PerKindCheck(i)
        /\ (Chain = <<>> /\ DstConcrete) => okRet

C1_Witness ==
    /\ Called
    /\ DstConcrete
    /\ Len(Chain) = 2
    /\ Listed(Chain[1])
    /\ ~Listed(Chain[2])
    /\ okEvaluated = 2
    /\ ~okRet

\* C2: with a null destination descriptor, or one of format kind any,
\* post_ops_ok returns the boolean false and has evaluated no chain entry,
\* whatever the chain, ISA and policy flags.
C2_NoDstRejectedUnevaluated ==
    Called =>
        /\ okRet \in BOOLEAN
        /\ okArgs.dst_d \in {"null", "any"} => (okRet = FALSE /\ okEvaluated = 0)

C2_Witness ==
    /\ Called
    /\ okArgs.dst_d = "null"
    /\ Chain = <<EltwiseEntry("eltwise_relu", 0), DepthwiseEntry("depthwise_scale_shift")>>
    /\ Accepted = Range(PostOpTypes)
    /\ okRet = FALSE
    /\ okEvaluated = 0

NoSumPolicy ==
    /\ ~okArgs.sum_requires_same_params
    /\ ~okArgs.sum_requires_scale_one
    /\ ~okArgs.sum_requires_zp_zero
    /\ ~okArgs.sum_at_pos_0_only

\* C3: with sum accepted and sum_requires_same_params active, a chain in
\* which some sum entry's scale or zero point differs from the first sum
\* entry's is rejected; with no sum policy active (and a concrete destination
\* layout) no sum entry makes post_ops_ok reject, so a chain of sum entries
\* such as [sum(1,0), sum(2,0)] is accepted.
C3_SumUniformity ==
    (Called /\ "sum" \in Accepted) =>
        /\ (/\ okArgs.sum_requires_same_params
            /\ \E i \in SumPositions : DiffersFromFirstSum(Chain[i])) => ~okRet
        /\ (NoSumPolicy /\ DstConcrete /\ Rejected) => RejectingEntry.kind # "sum"
        /\ (NoSumPolicy /\ DstConcrete /\ SumPositions = DOMAIN Chain) => okRet

C3_Witness ==
    /\ Called
    /\ Accepted = {"sum"}
    /\ Chain = <<SumEntry(1, 0), SumEntry(2, 0)>>
    /\ okArgs.sum_requires_same_params
    /\ ~okArgs.sum_requires_scale_one
    /\ ~okArgs.sum_requires_zp_zero
    /\ ~okArgs.sum_at_pos_0_only
    /\ DstConcrete
    /\ okEvaluated = 2
    /\ ~okRet

\* a sum entry breaks one of the policies that look at its parameters
SumParamsViolate(e) ==
    \/ okArgs.sum_requires_same_params /\ DiffersFromFirstSum(e)
    \/ okArgs.sum_requires_scale_one /\ e.scale # 1
    \/ okArgs.sum_requires_zp_zero /\ e.zero_point # 0

\* C4: with sum and eltwise accepted and sum_at_pos_0_only active, a chain
\* with a sum entry anywhere but first is rejected, and [sum, eltwise] (a sum
\* with the default scale 1 and zero point 0, on a concrete destination
\* layout) is accepted exactly when the eltwise algorithm is supported on the
\* ISA; with the policy inactive a sum entry is rejected only for its
\* parameters, never for its position.
C4_SumPosition ==
    (Called /\ {"sum", "eltwise"} \subseteq Accepted) =>
        /\ (okArgs.sum_at_pos_0_only /\ \E i \in SumPositions : i # 1) => ~okRet
        /\ (/\ okArgs.sum_at_pos_0_only
            /\ DstConcrete
            /\ Len(Chain) = 2
            /\ Chain[1] = SumEntry(1, 0)
            /\ Chain[2].kind = "eltwise")
           => (okRet <=> eltwise_is_supported(okArgs.isa, Chain[2].alg))
        /\ (~okArgs.sum_at_pos_0_only /\ Rejected /\ RejectingEntry.kind = "sum")
           => SumParamsViolate(RejectingEntry)

C4_Witness ==
    /\ Called
    /\ Accepted = Range(PostOpTypes)
    /\ okArgs.sum_at_pos_0_only
    /\ DstConcrete
    /\ Chain = <<EltwiseEntry("eltwise_relu", 0), SumEntry(1, 0)>>
    /\ okEvaluated = 2
    /\ ~okRet

\* C5: with sum accepted, a chain holding a sum entry with scale # 1 is
\* rejected under sum_requires_scale_one, and one holding a sum entry with
\* zero point # 0 is rejected under sum_requires_zp_zero; with neither policy
\* nor same-params active, a sum entry is rejected only for its position.
C5_SumScaleAndZeroPoint ==
    (Called /\ "sum" \in Accepted) =>
        /\ (okArgs.sum_requires_scale_one /\ \E i \in SumPositions : Chain[i].scale # 1)
           => ~okRet
        /\ (okArgs.sum_requires_zp_zero /\ \E i \in SumPositions : Chain[i].zero_point # 0)
           => ~okRet
        /\ (/\ ~okArgs.sum_requires_scale_one
            /\ ~okArgs.sum_requires_zp_zero
            /\ ~okArgs.sum_requires_same_params
            /\ Rejected
            /\ RejectingEntry.kind = "sum")
           => (okArgs.sum_at_pos_0_only /\ okEvaluated # 1)

C5_Witness ==
    /\ Called
    /\ DstConcrete
    /\ "sum" \in Accepted
    /\ okArgs.sum_requires_scale_one
    /\ ~okArgs.sum_requires_zp_zero
    /\ ~okArgs.sum_requires_same_params
    /\ ~okArgs.sum_at_pos_0_only
    /\ Chain = <<SumEntry(2, 0)>>
    /\ ~okRet

\* C6: the verdict on an eltwise entry whose kind is accepted is
\* eltwise_injector::is_supported(isa, alg, f32), and the verdict on a
\* binary/prelu entry whose kind is accepted is
\* binary_injector::is_supported(isa, src1 descriptor, destination, enabled
\* strategies), whatever the policy flags and the entry's position are.
C6_EltwiseBinaryVerdict ==
    (Called /\ DstConcrete) =>
        \A i \in 1..okEvaluated :
            LET e == Chain[i] IN
            /\ (e.kind = "eltwise" /\ "eltwise" \in Accepted) =>
                   (VerdictOf(i) <=> eltwise_is_supported(okArgs.isa, e.alg))
            /\ (e.kind \in LikeBinaryKinds /\ Listed(e)) =>
                   (VerdictOf(i) <=>
                        binary_is_supported(okArgs.isa, get_src1_desc(e, okArgs.dst_d),
                                            okArgs.dst_d, okArgs.enabled_bcast_strategy))

\* a chain accepted on avx512_core / nChw16c that the same call rejects on
\* sse41 and on nchw
C6_Witness ==
    /\ Called
    /\ okArgs.isa = "avx512_core"
    /\ okArgs.dst_d = "nChw16c"
    /\ Chain = <<PreluEntry, EltwiseEntry("eltwise_round", 0)>>
    /\ okRet
    /\ ~post_ops_ok([okArgs EXCEPT !.isa = "sse41"]).ret
    /\ ~post_ops_ok([okArgs EXCEPT !.dst_d = "nchw"]).ret

\* C7: an accepted depthwise or quantization entry never makes post_ops_ok
\* reject, on any ISA, concrete layout, position and policy flags.
C7_DepthwiseQuantizationAccepted ==
    (Called /\ DstConcrete /\ Rejected) =>
        ~(RejectingEntry.kind \in {"depthwise", "quantization"}
            /\ RejectingEntry.kind \in Accepted)

C7_Witness ==
    /\ Called
    /\ okArgs.isa = "sse41"
    /\ okArgs.sum_at_pos_0_only
    /\ okArgs.sum_requires_scale_one
    /\ okArgs.sum_requires_zp_zero
    /\ okArgs.sum_requires_same_params
    /\ Chain = <<QuantizationEntry("quantization_quantize"),
                 DepthwiseEntry("depthwise_scale_shift")>>
    /\ okRet

(***************************************************************************)
(* Claims about construction after an approval (checked under SpecOk).     *)
(***************************************************************************)
Built == injector # NoInjector

\* how many entries of the built chain have one of the kinds
CountKind(kinds) ==
    Cardinality({i \in DOMAIN injector.post_ops_ : injector.post_ops_[i].kind \in kinds})

\* the sub-generators the orchestrator holds
SubGeneratorCount ==
    Cardinality(DOMAIN injector.alg_to_eltwise_injector_)
    + Len(injector.depthwise_injectors)
    + Len(injector.quantization_injectors)
    + (IF injector.binary_injector_ # Null THEN 1 ELSE 0)

\* C8 as stated: for every chain post_ops_ok accepted, construction succeeds
\* and the orchestrator holds as many sub-generators as the chain has entries.
C8_AsStated ==
    Built => (~injector.assert_failed /\ SubGeneratorCount = Len(injector.post_ops_))

\* C8 amended: for every chain post_ops_ok accepted, the constructor builds
\* one eltwise sub-generator per eltwise entry (keyed by its position), one
\* depthwise and one quantization sub-generator per entry of that kind, one
\* binary sub-generator shared by all binary/prelu entries and none for a sum
\* entry, so the count is the chain length less the sum entries and less the
\* binary/prelu entries beyond the first; and the only failure is the assert
\* on the mask registers (masked ISA, an eltwise and a binary/prelu entry, a
\* non-zero tail size, k_mask equal to the binary tail opmask).
C8_SubGeneratorsPerKind ==
    Built =>
        LET chain == injector.post_ops_
            elt == injector.alg_to_eltwise_injector_
            nLikeBinary == CountKind(LikeBinaryKinds)
        IN
        /\ okRet /\ chain = okArgs.post_ops
        /\ DOMAIN elt = {i \in DOMAIN chain : chain[i].kind = "eltwise"}
        /\ \A i \in DOMAIN elt : elt[i].alg = chain[i].alg /\ elt[i].alpha = chain[i].alpha
        /\ Len(injector.depthwise_injectors) = CountKind({"depthwise"})
        /\ Len(injector.quantization_injectors) = CountKind({"quantization"})
        /\ (injector.binary_injector_ # Null) <=> (nLikeBinary > 0)
        /\ SubGeneratorCount
             = Len(chain) - CountKind({"sum"})
               - (IF nLikeBinary > 0 THEN nLikeBinary - 1 ELSE 0)
        /\ injector.assert_failed <=>
             /\ injector.isa = "avx512_core"
             /\ injector.binary_injector_ # Null
             /\ injector.binary_injector_.tail_size # 0
             /\ \E i \in DOMAIN elt : elt[i].k_mask = injector.binary_injector_.tail_opmask

C8_Witness ==
    /\ Built
    /\ Len(injector.post_ops_) = 2
    /\ CountKind({"sum"}) = 1
    /\ CountKind({"prelu"}) = 1
    /\ ~injector.assert_failed
    /\ SubGeneratorCount = 1

(***************************************************************************)
(* Claims about emission passes (checked under SpecEmit).                  *)
(***************************************************************************)
Running == pc \in {"loop", "done"}

OfInjector == injector # NoInjector

\* the chain the running pass walks
PassChain == IF OfInjector THEN injector.post_ops_ ELSE kernel.post_ops_

UsesTable(e) == e.kind \in {"depthwise", "quantization"}

\* the memoryStep() of the entries of the chain at positions <= k that use
\* the auxiliary table, summed
RECURSIVE StepsUpTo(_, _)
StepsUpTo(chain, k) ==
    IF k = 0 THEN 0
    ELSE StepsUpTo(chain, k - 1) + (IF UsesTable(chain[k]) THEN memoryStep(chain[k]) ELSE 0)

\* the emitted operations that carry a table address
TableOps ==
    {"depthwise.init_ptrs", "quantization.init_crop_ptrs",
     "quantization.init_input_scale_shift_ptrs",
     "quantization.init_output_scale_shift_ptrs", "mov reg_d_weights"}

\* the base of the table for an entry: the dynamic params' base offset in
\* compute_vector_range, the table register itself in the kernel
TableBase(e) ==
    IF ~OfInjector THEN 0
    ELSE IF e.kind = "depthwise" THEN args.ddp.base_post_ops_data_offset
    ELSE args.qdp.base_post_ops_data_offset

\* C9: within one compute_vector_range pass, and within one apply_post_ops
\* pass of the epilogue kernel, once the entries before position pos are
\* processed the running byte offset is the sum of memoryStep() over the
\* depthwise and quantization entries among them (so an entry of another kind
\* leaves it unchanged), and every table address handed out for the depthwise
\* or quantization entry at position p is the base plus the sum over the
\* positions before p.
C9_AuxiliaryOffset ==
    Running =>
        /\ locals.post_ops_data_offset = StepsUpTo(PassChain, pos - 1)
        /\ \A k \in DOMAIN locals.emitted :
             LET r == locals.emitted[k] IN
             r.op \in TableOps =>
                 /\ UsesTable(PassChain[r.pos])
                 /\ r.base = TableBase(PassChain[r.pos]) + StepsUpTo(PassChain, r.pos - 1)
        /\ \A p \in 1..(pos - 1) :
             UsesTable(PassChain[p]) =>
                 \E k \in DOMAIN locals.emitted :
                     locals.emitted[k].pos = p /\ locals.emitted[k].op \in TableOps

C9_Witness ==
    /\ OfInjector
    /\ pc = "done"
    /\ Len(PassChain) = 3
    /\ PassChain[1].kind = "depthwise"
    /\ PassChain[2].kind = "quantization"
    /\ PassChain[3].kind = "depthwise"
    /\ args.ddp.base_post_ops_data_offset = 16
    /\ locals.post_ops_data_offset = 3 * PtrSize
    /\ \E k \in DOMAIN locals.emitted :
         /\ locals.emitted[k].pos = 3
         /\ locals.emitted[k].op = "depthwise.init_ptrs"
         /\ locals.emitted[k].base = 16 + 2 * PtrSize

\* the destination type for which the store does not round by itself
RequiresFloatRounding(dst_dt) == dst_dt = "f32"

\* C10: in compute_vector_range, the quantization entry at position p has its
\* input scale and shift computed with rounding if and only if it asks for
\* dequantization, or the destination type requires float rounding, or p is
\* not the last position of the chain.
C10_RoundingPolicy ==
    (OfInjector /\ Running) =>
        /\ \A k \in DOMAIN locals.emitted :
             LET r == locals.emitted[k] IN
             r.op = "quantization.compute_input_scale_shift" =>
                 (r.flag <=>
                     \/ PassChain[r.pos].alg = "quantization_quantize_dequantize"
                     \/ RequiresFloatRounding(args.qdp.dst_dt)
                     \/ r.pos # Len(PassChain))
        /\ \A p \in 1..(pos - 1) :
             PassChain[p].kind = "quantization" =>
                 \E k \in DOMAIN locals.emitted :
                     /\ locals.emitted[k].pos = p
                     /\ locals.emitted[k].op = "quantization.compute_input_scale_shift"

C10_Witness ==
    /\ OfInjector
    /\ pc = "done"
    /\ Len(PassChain) = 2
    /\ \A p \in 1..2 : PassChain[p] = QuantizationEntry("quantization_quantize")
    /\ args.qdp.dst_dt = "u8"
    /\ \E k \in DOMAIN locals.emitted :
         /\ locals.emitted[k].pos = 1
         /\ locals.emitted[k].op = "quantization.compute_input_scale_shift"
         /\ locals.emitted[k].flag
    /\ \E k \in DOMAIN locals.emitted :
         /\ locals.emitted[k].pos = 2
         /\ locals.emitted[k].op = "quantization.compute_input_scale_shift"
         /\ ~locals.emitted[k].flag

(***************************************************************************)
(* Claims about runs of the epilogue kernel (checked under SpecRun).       *)
(***************************************************************************)
RunOver == run.pc \in {"loop_end", "returned"}

\* the computes of the run that are full-width, and those that are masked
FullComputes == {c \in DOMAIN run.computes : ~run.computes[c].apply_mask}

MaskedComputes == {c \in DOMAIN run.computes : run.computes[c].apply_mask}

\* every destination element some compute of the run stored to
Written == UNION {run.computes[c].stored : c \in DOMAIN run.computes}

\* C11: a kernel invocation on len elements with vector width w and
\* r = len mod w > 0 runs exactly floor(len / w) full-width computes
\* (apply_mask = false), then exactly one masked compute (apply_mask = true)
\* with exactly r active lanes, and stores no destination element at an index
\* >= len.
C11_TailCorrectness ==
    (RunOver /\ run.len % vlen(kernel.isa) > 0) =>
        LET w == vlen(kernel.isa)
            r == run.len % w
        IN
        /\ Cardinality(FullComputes) = run.len \div w
        /\ Cardinality(MaskedComputes) = 1
        /\ \A c \in MaskedComputes :
             /\ c = Len(run.computes)
             /\ run.computes[c].lanes = 0..(r - 1)
             /\ run.computes[c].stored = (run.len - r)..(run.len - 1)
        /\ \A c \in FullComputes : run.computes[c].stored = ((c - 1) * w)..(c * w - 1)
        /\ Written = 0..(run.len - 1)

C11_Witness ==
    /\ RunOver
    /\ vlen(kernel.isa) = 8
    /\ run.len = 11
    /\ Len(run.computes) = 2
    /\ ~run.computes[1].apply_mask
    /\ run.computes[2].apply_mask
    /\ Cardinality(run.computes[2].lanes) = 3
    /\ Written = 0..10

\* C12 as stated: whenever the tail of an invocation has no element left
\* (len = 0, or len a positive multiple of the vector width), the run reaches
\* loop_end without a masked compute: no load, no post-op, no store of a tail
\* iteration; on every ISA of the kernel.
C12_AsStated ==
    (RunOver /\ run.len % vlen(kernel.isa) = 0) => MaskedComputes = {}

(***************************************************************************)
(* Claims about the dispatcher (checked under SpecCreate).                 *)
(***************************************************************************)
Created == disp # NoCreate

\* the tiers declared for the register width of the call
DeclaredTiers == MayiuseList(disp.width)

\* the positions of the declared list whose tier the running CPU supports
UsablePositions == {k \in DOMAIN DeclaredTiers : mayiuse(disp.cpu, DeclaredTiers[k])}

\* C13 as stated: when create is asked for an ISA the running CPU does not
\* support, on a CPU that supports some tier of the width's list, the
\* orchestrator returned is the one of the highest-priority tier of the list
\* that mayiuse allows, and so of a tier the CPU supports.
C13_AsStated ==
    (Created /\ ~mayiuse(disp.cpu, disp.isa) /\ UsablePositions # {}) =>
        /\ disp.outcome = "returned"
        /\ \E k \in UsablePositions :
             /\ \A j \in UsablePositions : k <= j
             /\ injector.isa = DeclaredTiers[k]
        /\ mayiuse(disp.cpu, injector.isa)

\* C14 as stated: create returns null if and only if the requested ISA is not
\* in the width's list and mayiuse is false for every tier of the list, and
\* it never ends in an assertion abort.
C14_AsStated ==
    Created =>
        /\ disp.outcome # "abort"
        /\ (disp.outcome = "nullptr") <=>
               (disp.isa \notin Range(ExactMatchList(disp.width)) /\ UsablePositions = {})

(***************************************************************************)
(* Claims about the stack helpers (checked under SpecStack).               *)
(***************************************************************************)
\* N: the depthwise and quantization entries of the orchestrator's chain
ChainPointers == NumPointers(injector.post_ops_)

C16_AsStated ==
    \A c \in DOMAIN stack.calls :
        stack.calls[c].op = "push" =>
            /\ stack.calls[c].bytes = ChainPointers * PtrSize
            /\ stack.calls[c].copied = [k \in 1..ChainPointers |-> k - 1]

(***************************************************************************)
(* Claims about the mask-register assertion of the constructor (checked    *)
(* under SpecOk).                                                          *)
(***************************************************************************)
HasEltwise == CountKind({"eltwise"}) > 0

HasLikeBinary == CountKind(LikeBinaryKinds) > 0

MaskedIsa == is_superset(injector.isa, "avx512_core")

\* the eltwise sub-generators were given the mask register that the binary
\* sub-generator uses for its tail
SameMaskRegister ==
    /\ injector.binary_injector_ # Null
    /\ \E i \in DOMAIN injector.alg_to_eltwise_injector_ :
         injector.alg_to_eltwise_injector_[i].k_mask = injector.binary_injector_.tail_opmask

\* C17 as stated: on a masked-vector ISA the construction-time assertion fails
\* whenever the chain has both an eltwise and a binary/prelu entry and k_mask
\* is the register tail_opmask; it never fires when the registers differ, when
\* the chain lacks one of the two kinds, or on an ISA without mask registers.
C17_AsStated ==
    Built =>
        (injector.assert_failed <=>
            (MaskedIsa /\ HasEltwise /\ HasLikeBinary /\ SameMaskRegister))

\* C17 amended: the assertion fails exactly when the ISA is avx512_core or a
\* superset, the chain has both an eltwise and a binary/prelu entry, the
\* binary static params give a non-zero tail size, and k_mask is the register
\* tail_opmask; with a zero tail size it does not fire even though the
\* registers are the same.
C17_MaskAssertion ==
    Built =>
        /\ injector.assert_failed <=>
             (/\ MaskedIsa /\ HasEltwise /\ HasLikeBinary /\ SameMaskRegister
              /\ injector.binary_injector_.tail_size # 0)
        /\ (MaskedIsa /\ HasEltwise /\ HasLikeBinary /\ SameMaskRegister
            /\ injector.binary_injector_.tail_size = 0) => ~injector.assert_failed

C17_Witness ==
    /\ Built
    /\ injector.isa = "avx512_core"
    /\ HasEltwise
    /\ HasLikeBinary
    /\ SameMaskRegister
    /\ injector.binary_injector_.tail_size # 0
    /\ injector.assert_failed

(***************************************************************************)
(* Claims about the order and the callbacks of compute_vector_range        *)
(* (checked under SpecEmit).                                               *)
(***************************************************************************)
HandledKinds == {"eltwise", "binary", "prelu", "depthwise", "quantization"}

OtherKind(e) == e.kind \notin HandledKinds

Registered(kind) == kind \in DOMAIN injector.lambda_jit_injectors_

\* the positions of the log whose record belongs to chain position p
RecordsOf(p) == {k \in DOMAIN locals.emitted : locals.emitted[k].pos = p}

\* how many of the entries before position p have one of the kinds
CountBefore(p, kinds) ==
    Cardinality({q \in 1..(p - 1) : PassChain[q].kind \in kinds})

\* C18: for a chain entry whose kind is none of eltwise, binary/prelu,
\* depthwise, quantization, compute_vector_range calls the callback registered
\* for the kind exactly once, at the entry's place in chain order, and emits
\* nothing when none is registered; such entries do not move the auxiliary
\* offset, the operand index or the per-kind indices, which count only the
\* entries of the handled kinds; and after set_lambda_injector(kind, f) the
\* callback registered for kind is f.
C18_LambdaDispatch ==
    /\ (OfInjector /\ Running) =>
         /\ \A p \in 1..(pos - 1) :
              OtherKind(PassChain[p]) =>
                  IF Registered(PassChain[p].kind)
                  THEN /\ Cardinality(RecordsOf(p)) = 1
                       /\ \A k \in RecordsOf(p) :
                            /\ locals.emitted[k].op = "lambda"
                            /\ locals.emitted[k].arg
                                 = injector.lambda_jit_injectors_[PassChain[p].kind]
                            /\ \A l \in 1..(k - 1) : locals.emitted[l].pos < p
                            /\ \A l \in (k + 1)..Len(locals.emitted) : locals.emitted[l].pos > p
                  ELSE RecordsOf(p) = {}
         /\ locals.rhs_arg_idx
              = CountBefore(pos, {"binary", "prelu", "depthwise", "quantization"})
         /\ locals.depthwise_inj_idx = CountBefore(pos, {"depthwise"})
         /\ locals.quantization_inj_idx = CountBefore(pos, {"quantization"})
         /\ locals.post_ops_data_offset = StepsUpTo(PassChain, pos - 1)
    /\ (OfInjector /\ pc = "idle" /\ "kind" \in DOMAIN args) =>
         /\ Registered(args.kind)
         /\ injector.lambda_jit_injectors_[args.kind] = args.jit_injector

C18_Witness ==
    /\ OfInjector
    /\ pc = "done"
    /\ Len(PassChain) = 3
    /\ PassChain[1].kind = "depthwise"
    /\ PassChain[2].kind = "sum"
    /\ PassChain[3].kind = "binary"
    /\ Registered("sum")
    /\ injector.lambda_jit_injectors_["sum"] = "sum_injector_2"
    /\ \E k \in RecordsOf(2) : locals.emitted[k].arg = "sum_injector_2"
    /\ locals.rhs_arg_idx = 2
    /\ locals.post_ops_data_offset = PtrSize

\* the operations a chain entry of a kind may emit, and the one it emits first
OpsOf(e) ==
    CASE e.kind = "eltwise" -> {"eltwise.compute_vector_range"}
      [] e.kind \in LikeBinaryKinds -> {"binary.compute_vector_range"}
      [] e.kind = "depthwise" -> {"depthwise.init_ptrs", "depthwise.compute"}
      [] e.kind = "quantization" ->
             {"quantization.init_crop_ptrs", "quantization.compute_crop",
              "quantization.init_input_scale_shift_ptrs",
              "quantization.compute_input_scale_shift",
              "quantization.init_output_scale_shift_ptrs",
              "quantization.compute_output_scale_shift"}
      [] OTHER -> {"lambda"}

FirstOpOf(e) ==
    CASE e.kind = "eltwise" -> "eltwise.compute_vector_range"
      [] e.kind \in LikeBinaryKinds -> "binary.compute_vector_range"
      [] e.kind = "depthwise" -> "depthwise.init_ptrs"
      [] e.kind = "quantization" -> "quantization.init_crop_ptrs"
      [] OTHER -> "lambda"

Emits(e) == ~OtherKind(e) \/ Registered(e.kind)

\* C19: compute_vector_range handles the chain entries strictly in chain
\* order: the log of a pass holds the emission of entry 1, then of entry 2,
\* and so on, each entry handled exactly once (its opening operation appears
\* once) and nothing of entry j before the emission of an entry i < j is
\* complete; when the pass returns every entry has been handled.
C19_ChainOrder ==
    (OfInjector /\ Running) =>
        /\ \A k, l \in DOMAIN locals.emitted :
             k < l => locals.emitted[k].pos <= locals.emitted[l].pos
        /\ \A k \in DOMAIN locals.emitted :
             /\ locals.emitted[k].pos \in 1..(pos - 1)
             /\ locals.emitted[k].op \in OpsOf(PassChain[locals.emitted[k].pos])
        /\ \A p \in 1..(pos - 1) :
             Cardinality({k \in RecordsOf(p) : locals.emitted[k].op = FirstOpOf(PassChain[p])})
                 = (IF Emits(PassChain[p]) THEN 1 ELSE 0)
        /\ pc = "done" => pos = Len(PassChain) + 1

C19_Witness ==
    /\ OfInjector
    /\ pc = "done"
    /\ Len(PassChain) = 3
    /\ PassChain[1].kind = "quantization"
    /\ PassChain[2].kind = "binary"
    /\ PassChain[3].kind = "eltwise"
    /\ Cardinality(args.vmm_idxs) = 3
    /\ locals.emitted[Len(locals.emitted)].op = "eltwise.compute_vector_range"
    /\ locals.emitted[Len(locals.emitted) - 1].op = "binary.compute_vector_range"
    /\ locals.emitted[1].op = "quantization.init_crop_ptrs"

(***************************************************************************)
(* Claims about the reuse of an orchestrator (checked under SpecStack).    *)
(***************************************************************************)
\* what a pass emits when every local starts at 0, for the orchestrator as
\* it was constructed
RECURSIVE FreshPassFrom(_, _, _, _)
FreshPassFrom(inj, a, p, st) ==
    IF p > Len(inj.post_ops_) THEN st
    ELSE FreshPassFrom(inj, a, p + 1, CvrIteration(inj, a, p, st))

ZeroLocals ==
    [rhs_arg_idx |-> 0, quantization_inj_idx |-> 0, depthwise_inj_idx |-> 0,
     post_ops_data_offset |-> 0, emitted |-> <<>>]

AsConstructed(inj) == [inj EXCEPT !.post_ops_pointers_count = 0]

\* C20: a step of a compute_vector_range call leaves the orchestrator (chain,
\* sub-generator collections, callback map, stack pointer count) as it was;
\* every call starts its auxiliary offset, operand index and per-kind indices
\* at 0; and what a returned call has emitted depends on the orchestrator as
\* constructed and on the call's arguments only, so that two calls with the
\* same arguments emit the same sequence whatever was called in between.
C20_Reusable ==
    [][/\ (pc' # pc \/ pos' # pos \/ locals' # locals) => injector' = injector
       /\ (pc' = "loop" /\ pc # "loop") => (locals' = ZeroLocals /\ pos' = 1)
       /\ (pc' = "done") =>
            locals' = FreshPassFrom(AsConstructed(injector'), args', 1, ZeroLocals)]_vars

C20_Witness ==
    /\ OfInjector
    /\ pc = "done"
    /\ ChainPointers = 2
    /\ injector.post_ops_pointers_count = 4
    /\ Len(stack.calls) = 3
    /\ locals.post_ops_data_offset = 2 * PtrSize
    /\ locals.depthwise_inj_idx = 1
    /\ locals.quantization_inj_idx = 1

(***************************************************************************)
(* Claims about the grouping of registers for quantization (checked under  *)
(* SpecEmit).                                                              *)
(***************************************************************************)
\* the records of chain position p with the operation, in log order
RECURSIVE SelectOp(_, _, _)
SelectOp(log, p, op) ==
    IF log = <<>> THEN <<>>
    ELSE (IF log[1].pos = p /\ log[1].op = op THEN <<log[1]>> ELSE <<>>)
         \o SelectOp(Tail(log), p, op)

\* the sequence of groups is the partition of the call's register indices by
\* offset, in ascending offset order, each group carrying its offset
IsOffsetPartition(groups) ==
    /\ UNION {groups[g].idxs : g \in DOMAIN groups} = args.vmm_idxs
    /\ \A g \in DOMAIN groups : groups[g].idxs # {}
    /\ \A g, h \in DOMAIN groups : g # h => groups[g].idxs \cap groups[h].idxs = {}
    /\ \A g \in DOMAIN groups : \A v \in groups[g].idxs :
         args.qdp.vmm_idx_off[v] = groups[g].off
    /\ \A g, h \in DOMAIN groups : g < h => groups[g].off < groups[h].off

\* the position in the log of the last record of p with the operation, and of
\* the first one
LastOf(p, op) ==
    CHOOSE k \in RecordsOf(p) :
        /\ locals.emitted[k].op = op
        /\ \A l \in RecordsOf(p) : locals.emitted[l].op = op => l <= k

FirstOf(p, op) ==
    CHOOSE k \in RecordsOf(p) :
        /\ locals.emitted[k].op = op
        /\ \A l \in RecordsOf(p) : locals.emitted[l].op = op => k <= l

\* C21: for a quantization entry compute_vector_range partitions the register
\* index set by qdp.vmm_idx_off: every index is in exactly one group, two
\* indices share a group if and only if their offsets are equal, the groups
\* are visited in ascending offset order, each of crop, input scale/shift and
\* output scale/shift is applied once to every group with that group's offset,
\* and a step is finished on all groups before the next step starts.
C21_QuantizationGroups ==
    (OfInjector /\ Running) =>
        \A p \in 1..(pos - 1) :
            PassChain[p].kind = "quantization" =>
                /\ IsOffsetPartition(SelectOp(locals.emitted, p, "quantization.compute_crop"))
                /\ IsOffsetPartition(
                       SelectOp(locals.emitted, p, "quantization.compute_input_scale_shift"))
                /\ IsOffsetPartition(
                       SelectOp(locals.emitted, p, "quantization.compute_output_scale_shift"))
                /\ LastOf(p, "quantization.compute_crop")
                     < FirstOf(p, "quantization.compute_input_scale_shift")
                /\ LastOf(p, "quantization.compute_input_scale_shift")
                     < FirstOf(p, "quantization.compute_output_scale_shift")

C21_Witness ==
    /\ OfInjector
    /\ pc = "done"
    /\ Len(PassChain) = 1
    /\ PassChain[1].kind = "quantization"
    /\ args.vmm_idxs = {1, 2, 3}
    /\ LET crops == SelectOp(locals.emitted, 1, "quantization.compute_crop") IN
         /\ Len(crops) = 2
         /\ crops[1].idxs = {2} /\ crops[1].off = 0
         /\ crops[2].idxs = {1, 3} /\ crops[2].off = 4

(***************************************************************************)
(* Claims about the registers of the epilogue kernel (checked under        *)
(* SpecKernel).                                                            *)
(***************************************************************************)
KernelBuilt == kernel # NoKernel

NarrowIsa == kernel.isa \in {"avx2", "sse41"}

\* the highest vector register index of the kernel's ISA
ArchMax == IF kernel.isa = "avx512_core" THEN 31 ELSE 15

HasPrelu == \E i \in DOMAIN kernel.post_ops_ : kernel.post_ops_[i].kind = "prelu"

\* the registers the compute range has lost at its low end to the fixed roles
\* of the ISA: Vmm(0) for the mask, vreg_zero and vreg_tmp
FixedLowRegisters == IF NarrowIsa THEN 3 ELSE 0

\* the constructor took a register for the prelu temporary
PreluTmpReserved == kernel.idx_compute_vreg_start_ = FixedLowRegisters + 1

\* the constructor took the two registers of the depthwise weights and bias
WeightsReserved == kernel.idx_compute_vreg_max_ = ArchMax - 2

\* the roles that were assigned a vector register at construction, each with
\* its index
Roles ==
    {<<"dst", idx_vreg_dst(kernel)>>, <<"bias", idx_vreg_bias(kernel)>>}
    \cup (IF NarrowIsa
          THEN {<<"vreg_mask", 0>>, <<"vreg_zero", kernel.vreg_zero>>,
                <<"vreg_tmp", kernel.vreg_tmp>>}
          ELSE {})
    \cup (IF PreluTmpReserved \/ HasPrelu
          THEN {<<"prelu_tmp", kernel.prelu_tmp_vmm_idx>>}
          ELSE {})
    \cup (IF WeightsReserved
          THEN {<<"vreg_d_weights", kernel.vreg_d_weights>>,
                <<"vreg_d_bias", kernel.vreg_d_bias>>}
          ELSE {})
    \cup (IF kernel.jit_binary_injector_ # Null
          THEN {<<"helper_vmm", kernel.jit_binary_injector_.helper_vmm_idx>>}
          ELSE {})

\* C22 as stated: for every ISA of the kernel and every chain, the vector
\* register indices assigned at construction lie within the ISA's register
\* file, the dst and bias indices do not exceed idx_compute_vreg_max_, and no
\* two roles have the same index.
C22_AsStated ==
    KernelBuilt =>
        /\ \A r \in Roles : r[2] \in 0..ArchMax
        /\ idx_vreg_dst(kernel) <= kernel.idx_compute_vreg_max_
        /\ idx_vreg_bias(kernel) <= kernel.idx_compute_vreg_max_
        /\ \A r, q \in Roles : r[1] # q[1] => r[2] # q[2]

\* the operations that hand an operand index to the binary sub-generator
BinaryOps == {"binary.compute_vector_range", "binary.compute_vector"}

\* C24 as stated: in compute_vector_range and in the kernel's apply_post_ops,
\* the operand index passed to the binary sub-generator for a binary/prelu
\* entry at position i is the number of binary/prelu, depthwise and
\* quantization entries at positions below i.
C24_AsStated ==
    Running =>
        \A k \in DOMAIN locals.emitted :
            locals.emitted[k].op \in BinaryOps =>
                locals.emitted[k].arg
                    = CountBefore(locals.emitted[k].pos,
                                  {"binary", "prelu", "depthwise", "quantization"})

\* C25 as stated: the kernel's constructor reserves a temporary register for
\* prelu exactly when the chain has a prelu entry, wherever it is; when it has
\* one the temporary is neither the mask register Vmm(0) nor the dst or bias
\* register, and when it has none idx_compute_vreg_start_ is not advanced.
C25_AsStated ==
    KernelBuilt =>
        /\ PreluTmpReserved <=> HasPrelu
        /\ HasPrelu =>
             /\ NarrowIsa => kernel.prelu_tmp_vmm_idx # 0
             /\ kernel.prelu_tmp_vmm_idx
                  \notin {idx_vreg_dst(kernel), idx_vreg_bias(kernel)}
        /\ ~HasPrelu => kernel.idx_compute_vreg_start_ = FixedLowRegisters

(***************************************************************************)
(* Claims about the constructors (checked under SpecCtor).                 *)
(***************************************************************************)
\* C23 as stated: after construction through any constructor, every eltwise
\* entry at position i has its own sub-generator stored under key i, built
\* from entry i's algorithm and alpha, so that the lookup by position in
\* compute_vector_range succeeds; and the shared binary sub-generator exists
\* whenever the chain has a binary or prelu entry.
C23_AsStated ==
    OfInjector =>
        /\ \A i \in DOMAIN injector.post_ops_ :
             is_eltwise(injector.post_ops_[i]) =>
                 /\ i \in DOMAIN injector.alg_to_eltwise_injector_
                 /\ injector.alg_to_eltwise_injector_[i].alg = injector.post_ops_[i].alg
                 /\ injector.alg_to_eltwise_injector_[i].alpha = injector.post_ops_[i].alpha
        /\ (\E i \in DOMAIN injector.post_ops_ : is_like_binary(injector.post_ops_[i]))
               => injector.binary_injector_ # Null
        /\ pc # "out_of_range"

====
